---- MODULE Spec2Model ----
(***************************************************************************)
(* A model of the Ark backup engine (src/src/engine.ts) and of the         *)
(* category registry it reads (src/src/config.ts).                         *)
(*                                                                         *)
(* Buffers are sequences of bytes (0..255); strings are the sequences of   *)
(* their ASCII codes.  A path is a sequence of segments, each a string.    *)
(* node:zlib and node:crypto are libraries the engine calls: they are      *)
(* modelled by small stand-ins (a run-length coder with a frame check, a   *)
(* keyed stream cipher with a 16-byte keyed digest) that keep what the     *)
(* engine relies on: gunzip inverts gzip and rejects other input, and the  *)
(* authenticated cipher rejects a wrong key, ciphertext or tag.            *)
(***************************************************************************)
EXTENDS Integers, Sequences, FiniteSets, TLC

VARIABLES
    now,        \* Date.now(), in milliseconds
    files,      \* the data tree: path -> content of every regular file
    dirs,       \* the data tree: the set of directories
    bdirExists, \* whether config.backupDir exists
    bdir,       \* config.backupDir: file name -> [data, mtime]
    cr,         \* createBackup calls in flight, per caller
    created,    \* number of createBackup calls that returned a result
    made,       \* what each returned createBackup call read, sealed and returned
    rs,         \* the restoreBackup call in flight
    restores,   \* number of restoreBackup calls started
    hist,       \* results of the restoreBackup calls that returned
    pr,         \* the pruneBackups call in flight
    edits,      \* number of changes made to the data tree from outside
    dl,         \* download.ts: activeTokens, expiryTimers and the requests
    ep,         \* index.ts: the entry point call in flight
    rng         \* number of randomBytes calls made so far

vars == <<now, files, dirs, bdirExists, bdir, cr, created, made, rs, restores, hist, pr, edits, dl, ep, rng>>

\* The state of the engine, of the download server and of the entry points.
engineVars == <<now, files, dirs, bdirExists, bdir, cr, created, made, rs, restores, hist, pr, edits>>

----------------------------------------------------------------------------
(* Bytes, buffers and strings                                              *)

Min(a, b) == IF a < b THEN a ELSE b
Max(a, b) == IF a > b THEN a ELSE b

Zeros(n) == [i \in 1..n |-> 0]

\* Buffer.subarray(start, end): both clamped to the buffer, negative
\* indices counted from the end.
SubArr(buf, s, e) ==
    LET n  == Len(buf)
        s1 == IF s < 0 THEN Max(n + s, 0) ELSE Min(s, n)
        e1 == IF e < 0 THEN Max(n + e, 0) ELSE Min(e, n)
    IN  IF e1 <= s1 THEN <<>> ELSE [i \in 1..(e1 - s1) |-> buf[s1 + i]]

\* String.prototype.slice(start) and slice(0, end) on non-negative indices.
StrSlice(s, a, b) == SubArr(s, a, b)

\* buf.write(str, offset): the bytes of str land at offset, cut at the
\* end of the buffer.
BufWrite(buf, str, off) ==
    [i \in 1..Len(buf) |->
        IF i > off /\ i <= off + Len(str) THEN str[i - off] ELSE buf[i]]

\* Sum of buf[lo..hi], by halving.
RECURSIVE SumRange(_, _, _)
SumRange(buf, lo, hi) ==
    IF lo > hi THEN 0
    ELSE IF lo = hi THEN buf[lo]
    ELSE LET mid == (lo + hi) \div 2
         IN  SumRange(buf, lo, mid) + SumRange(buf, mid + 1, hi)

\* Buffer.concat / string concatenation of a list of buffers.
RECURSIVE Concat(_)
Concat(list) ==
    IF list = <<>> THEN <<>> ELSE Head(list) \o Concat(Tail(list))

\* str.replace(/\0/g, ""): the NUL bytes are dropped.
StripNul(s) == SelectSeq(s, LAMBDA b : b # 0)

\* String.prototype.trim() on the whitespace an archive field can hold.
IsSpace(b) == b \in {9, 10, 11, 12, 13, 32}
RECURSIVE TrimLeft(_)
TrimLeft(s) ==
    IF s # <<>> /\ IsSpace(Head(s)) THEN TrimLeft(Tail(s)) ELSE s
RECURSIVE TrimRight(_)
TrimRight(s) ==
    IF s # <<>> /\ IsSpace(s[Len(s)])
    THEN TrimRight(SubSeq(s, 1, Len(s) - 1)) ELSE s
Trim(s) == TrimRight(TrimLeft(s))

\* Number.prototype.toString(8) and toString(10) of a non-negative integer.
RECURSIVE ToRadix(_, _)
ToRadix(n, r) ==
    IF n < r THEN <<48 + n>> ELSE ToRadix(n \div r, r) \o <<48 + (n % r)>>

\* String.prototype.padStart(len, "0").
PadStart0(s, len) ==
    IF Len(s) >= len THEN s ELSE [i \in 1..(len - Len(s)) |-> 48] \o s

\* parseInt(str, radix): an optional sign, then the longest run of digits
\* of the radix; NaN (here -1 under the flag nan) when there is none.
RECURSIVE DigitsValue(_, _, _)
DigitsValue(s, r, acc) ==
    IF s # <<>> /\ Head(s) >= 48 /\ Head(s) < 48 + r
    THEN DigitsValue(Tail(s), r, acc * r + (Head(s) - 48))
    ELSE acc
ParseInt(str, r) ==
    LET t    == TrimLeft(str)
        neg  == t # <<>> /\ Head(t) = 45
        body == IF t # <<>> /\ Head(t) \in {43, 45} THEN Tail(t) ELSE t
        ok   == body # <<>> /\ Head(body) >= 48 /\ Head(body) < 48 + r
        v    == DigitsValue(body, r, 0)
    IN  [nan |-> ~ok, val |-> IF ~ok THEN 0 ELSE IF neg THEN 0 - v ELSE v]

\* str.split(sep): the pieces between occurrences of the byte sep.
RECURSIVE Split(_, _)
Split(s, sep) ==
    IF \A i \in 1..Len(s) : s[i] # sep THEN <<s>>
    ELSE LET k == CHOOSE i \in 1..Len(s) :
                    s[i] = sep /\ \A j \in 1..(i - 1) : s[j] # sep
         IN  <<SubSeq(s, 1, k - 1)>> \o Split(SubSeq(s, k + 1, Len(s)), sep)

\* list.join(sep)
RECURSIVE Join(_, _)
Join(list, sep) ==
    IF list = <<>> THEN <<>>
    ELSE IF Len(list) = 1 THEN list[1]
    ELSE list[1] \o <<sep>> \o Join(Tail(list), sep)

\* Lexicographic order on strings, the order readdir lists a directory in.
StrLess(a, b) ==
    LET n    == Min(Len(a), Len(b))
        diff == {i \in 1..n : a[i] # b[i]}
    IN  IF diff = {} THEN Len(a) < Len(b)
        ELSE LET k == CHOOSE i \in diff : \A j \in diff : i <= j
             IN  a[k] < b[k]

RECURSIVE SortStrs(_)
SortStrs(S) ==
    IF S = {} THEN <<>>
    ELSE LET m == CHOOSE x \in S : \A y \in S \ {x} : StrLess(x, y)
         IN  <<m>> \o SortStrs(S \ {m})

StartsWith(s, p) == Len(s) >= Len(p) /\ SubSeq(s, 1, Len(p)) = p

IsLetter(b) == (b >= 65 /\ b <= 90) \/ (b >= 97 /\ b <= 122)

----------------------------------------------------------------------------
(* Program constants                                                       *)

MAGIC == <<79, 67, 66, 65, 75, 49>>                          \* "OCBAK1"
SALT_LEN == 32
IV_LEN == 16
TAG_LEN == 16
\* MAGIC.length + SALT_LEN + IV_LEN: where the authentication tag begins
HEADER_LEN == Len(MAGIC) + SALT_LEN + IV_LEN
BLOCK == 512
NAME_MAX == 99
END_MARKER_LEN == 1024

MANIFEST_NAME == <<109, 97, 110, 105, 102, 101, 115, 116, 46, 106, 115, 111, 110>>  \* "manifest.json"
SLASH == 47

----------------------------------------------------------------------------
(* The container codec: tarHeader, and the packing of createBackup         *)

\* tarHeader(name, size), with t the value of Date.now() it reads.
tarHeader(name, size, t) ==
    LET h0 == Zeros(BLOCK)
        h1 == BufWrite(h0, StrSlice(name, 0, NAME_MAX), 0)
        h2 == BufWrite(h1, <<48, 48, 48, 48, 54, 52, 52, 0>>, 100)   \* "0000644\0"
        h3 == BufWrite(h2, <<48, 48, 48, 49, 48, 48, 48, 0>>, 108)   \* "0001000\0"
        h4 == BufWrite(h3, <<48, 48, 48, 49, 48, 48, 48, 0>>, 116)
        h5 == BufWrite(h4, PadStart0(ToRadix(size, 8), 11) \o <<0>>, 124)
        h6 == BufWrite(h5, PadStart0(ToRadix(t \div 1000, 8), 11) \o <<0>>, 136)
        h7 == BufWrite(h6, <<48>>, 156)                              \* typeflag "0"
        h8 == BufWrite(h7, <<117, 115, 116, 97, 114, 0>>, 257)       \* "ustar\0"
        h9 == BufWrite(h8, <<48, 48>>, 263)
        hA == BufWrite(h9, <<32, 32, 32, 32, 32, 32, 32, 32>>, 148)
        chksum == SumRange(hA, 1, BLOCK)
    IN  BufWrite(hA, PadStart0(ToRadix(chksum, 8), 6) \o <<0, 32>>, 148)

\* A faulty variant of PackEntry that pads every entry, a full block for
\* content that already ends on a block boundary.
PackEntryAlwaysPadded(name, content, t) ==
    tarHeader(name, Len(content), t) \o content
    \o Zeros(BLOCK - (Len(content) % BLOCK))

\* One entry as createBackup pushes it: header, content, zero padding to
\* the next block boundary.
PackEntry(name, content, t) ==
    LET pad == BLOCK - (Len(content) % BLOCK)
    IN  tarHeader(name, Len(content), t) \o content
        \o (IF pad < BLOCK THEN Zeros(pad) ELSE <<>>)

RECURSIVE PackEntries(_, _)
PackEntries(entries, t) ==
    IF entries = <<>> THEN <<>>
    ELSE PackEntry(entries[1].name, entries[1].content, t)
         \o PackEntries(Tail(entries), t)

\* tarBuf: the manifest first, the files read, the end marker.
BuildTar(manifestJson, entries, t) ==
    PackEntry(MANIFEST_NAME, manifestJson, t)
    \o PackEntries(entries, t) \o Zeros(END_MARKER_LEN)

----------------------------------------------------------------------------
(* JSON.stringify(manifest, null, 2) and JSON.parse: one field per line.   *)
(* createdAt stands for the ISO string of that instant.                    *)

HostName == <<104, 111, 115, 116>>                                  \* "host"

ManifestJson(m) ==
    Join(<< m.version, ToRadix(m.createdAt, 10), m.hostname,
            Join(m.categories, 44), ToRadix(m.fileCount, 10),
            ToRadix(m.totalBytes, 10) >>, 10)

IsDecimal(s) == s # <<>> /\ \A i \in 1..Len(s) : s[i] >= 48 /\ s[i] <= 57

\* JSON.parse throws a SyntaxError on text that is not JSON.
JsonParseOk(text) ==
    LET f == Split(text, 10)
    IN  Len(f) = 6 /\ IsDecimal(f[2]) /\ IsDecimal(f[5]) /\ IsDecimal(f[6])

JsonParse(text) ==
    LET f == Split(text, 10)
    IN  [version    |-> f[1],
         createdAt  |-> ParseInt(f[2], 10).val,
         hostname   |-> f[3],
         categories |-> IF f[4] = <<>> THEN <<>> ELSE Split(f[4], 44),
         fileCount  |-> ParseInt(f[5], 10).val,
         totalBytes |-> ParseInt(f[6], 10).val]

----------------------------------------------------------------------------
(* node:zlib stand-in: a frame mark followed by (count, byte) runs.        *)

GZ_MAGIC == <<31, 139>>

\* The runs of buf[lo..hi] as a list of [c, b] (count, byte), by halving:
\* the last run of the left half and the first of the right half are one
\* run when they hold the same byte.
RECURSIVE Runs(_, _, _)
Runs(buf, lo, hi) ==
    IF lo = hi THEN <<[c |-> 1, b |-> buf[lo]]>>
    ELSE LET mid == (lo + hi) \div 2
             l   == Runs(buf, lo, mid)
             r   == Runs(buf, mid + 1, hi)
         IN  IF l[Len(l)].b = r[1].b
             THEN SubSeq(l, 1, Len(l) - 1)
                  \o <<[c |-> l[Len(l)].c + r[1].c, b |-> r[1].b]>>
                  \o Tail(r)
             ELSE l \o r

gzipSync(buf) ==
    LET runs == IF buf = <<>> THEN <<>> ELSE Runs(buf, 1, Len(buf))
    IN  GZ_MAGIC \o
        [i \in 1..(3 * Len(runs)) |->
            LET run == runs[((i - 1) \div 3) + 1]
            IN  CASE i % 3 = 1 -> run.c \div 256
                  [] i % 3 = 2 -> run.c % 256
                  [] OTHER     -> run.b]

\* gunzipSync throws on input that is not a compressed stream.
GunzipOk(gz) ==
    /\ Len(gz) >= 2
    /\ SubSeq(gz, 1, 2) = GZ_MAGIC
    /\ (Len(gz) - 2) % 3 = 0
    /\ \A k \in 1..((Len(gz) - 2) \div 3) :
          gz[3 * k] * 256 + gz[3 * k + 1] > 0

\* The bytes of runs lo..hi of a stream, by halving.
RECURSIVE Expand(_, _, _)
Expand(gz, lo, hi) ==
    IF lo > hi THEN <<>>
    ELSE IF lo = hi
    THEN [i \in 1..(gz[3 * lo] * 256 + gz[3 * lo + 1]) |-> gz[3 * lo + 2]]
    ELSE LET mid == (lo + hi) \div 2
         IN  Expand(gz, lo, mid) \o Expand(gz, mid + 1, hi)

gunzipSync(gz) == Expand(gz, 1, (Len(gz) - 2) \div 3)

----------------------------------------------------------------------------
(* node:crypto stand-in                                                    *)

\* A position-weighted digest of a buffer: the sum over k of
\* (k + j) * s[k], plus the length, modulo 256; Digests(s) holds the two
\* sums every Dig(s, j) is made of.
Digests(s) ==
    [w |-> SumRange([k \in 1..Len(s) |-> (k * s[k]) % 256], 1, Len(s)) % 256,
     t |-> SumRange(s, 1, Len(s)) % 256,
     n |-> Len(s) % 256]
Dig(d, j) == (d.w + j * d.t + d.n) % 256

\* deriveKey(passphrase, salt): pbkdf2Sync(..., 32, "sha512")
deriveKey(passphrase, salt) ==
    LET dp == Digests(passphrase)
        ds == Digests(salt)
    IN  [i \in 1..32 |-> (Dig(dp, i) + 3 * Dig(ds, i)) % 256]

KeyStream(key, iv, i) ==
    (key[((i - 1) % 32) + 1] + iv[((i - 1) % Len(iv)) + 1] + i) % 256

\* cipher.update(plain) + cipher.final() of aes-256-gcm
Encrypt(key, iv, plain) ==
    [i \in 1..Len(plain) |-> (plain[i] + KeyStream(key, iv, i)) % 256]

\* cipher.getAuthTag()
AuthTag(key, iv, ct) ==
    LET dk == Digests(key)
        di == Digests(iv)
        dc == Digests(ct)
    IN  [j \in 1..TAG_LEN |-> (Dig(dk, j) + 5 * Dig(di, j) + Dig(dc, j)) % 256]

\* decipher.update(ct) + decipher.final(): final() throws unless the tag
\* set by setAuthTag is the tag of (key, iv, ct).
\* Faulty variants of the authentication in decipher.final(): one that
\* accepts any tag, one that compares all but the last byte of the tag.
TagUnchecked(key, iv, tag, ct) == TRUE

TagLastByteUnchecked(key, iv, tag, ct) ==
    SubArr(AuthTag(key, iv, ct), 0, TAG_LEN - 1) = SubArr(tag, 0, TAG_LEN - 1)

DecryptOk(key, iv, tag, ct) == AuthTag(key, iv, ct) = tag

Decrypt(key, iv, ct) ==
    [i \in 1..Len(ct) |-> (ct[i] - KeyStream(key, iv, i)) % 256]

\* createDecipheriv throws on an empty iv and setAuthTag on a tag of a
\* length GCM does not allow.
CryptoArgsOk(iv, tag) == Len(iv) >= 1 /\ Len(tag) \in {4, 8, 12, 13, 14, 15, 16}

----------------------------------------------------------------------------
(* Strings                                                                 *)

S_home == <<104, 111, 109, 101>>  \* "home"
S_dot_openclaw == <<46, 111, 112, 101, 110, 99, 108, 97, 119>>  \* ".openclaw"
S_clawd == <<99, 108, 97, 119, 100>>  \* "clawd"
S_workspace == <<119, 111, 114, 107, 115, 112, 97, 99, 101>>  \* "workspace"
S_workspace_dash == <<119, 111, 114, 107, 115, 112, 97, 99, 101, 45>>  \* "workspace-"
S_workspace_x == <<119, 111, 114, 107, 115, 112, 97, 99, 101, 45, 120>>  \* "workspace-x"
S_node_modules == <<110, 111, 100, 101, 95, 109, 111, 100, 117, 108, 101, 115>>  \* "node_modules"
S_dot_git == <<46, 103, 105, 116>>  \* ".git"
S_dot_cache == <<46, 99, 97, 99, 104, 101>>  \* ".cache"
S_openclaw_json == <<111, 112, 101, 110, 99, 108, 97, 119, 46, 106, 115, 111, 110>>  \* "openclaw.json"
S_config == <<99, 111, 110, 102, 105, 103>>  \* "config"
S_brain == <<98, 114, 97, 105, 110>>  \* "brain"
S_data_json == <<100, 97, 116, 97, 46, 106, 115, 111, 110>>  \* "data.json"
S_AGENTS_md == <<65, 71, 69, 78, 84, 83, 46, 109, 100>>  \* "AGENTS.md"
S_evil == <<101, 118, 105, 108>>  \* "evil"
S_x == <<120>>  \* "x"

----------------------------------------------------------------------------
(* The category registry (config.ts)                                       *)

\* homedir(), resolve(homedir(), ".openclaw"), resolve(homedir(), "clawd")
HomeDir == <<S_home>>
OcDir == HomeDir \o <<S_dot_openclaw>>
ClawdDir == HomeDir \o <<S_clawd>>

\* CATEGORIES: id, and the name under ocDir its paths function resolves
\* (discover: the category whose paths are discoverWorkspaces(oc, ws)).
CATEGORIES == <<
    [id |-> <<99, 111, 110, 102, 105, 103>>, sub |-> <<111, 112, 101, 110, 99, 108, 97, 119, 46, 106, 115, 111, 110>>, discover |-> FALSE],
    [id |-> <<99, 114, 101, 100, 101, 110, 116, 105, 97, 108, 115>>, sub |-> <<99, 114, 101, 100, 101, 110, 116, 105, 97, 108, 115>>, discover |-> FALSE],
    [id |-> <<119, 97, 108, 108, 101, 116>>, sub |-> <<100, 111, 103, 101>>, discover |-> FALSE],
    [id |-> <<98, 114, 97, 105, 110>>, sub |-> <<98, 114, 97, 105, 110>>, discover |-> FALSE],
    [id |-> <<100, 111, 99, 114, 97, 103>>, sub |-> <<100, 111, 99, 114, 97, 103>>, discover |-> FALSE],
    [id |-> <<99, 114, 111, 110>>, sub |-> <<99, 114, 111, 110>>, discover |-> FALSE],
    [id |-> <<101, 120, 116, 101, 110, 115, 105, 111, 110, 115>>, sub |-> <<101, 120, 116, 101, 110, 115, 105, 111, 110, 115>>, discover |-> FALSE],
    [id |-> <<119, 111, 114, 107, 115, 112, 97, 99, 101>>, sub |-> <<>>, discover |-> TRUE],
    [id |-> <<100, 101, 118, 105, 99, 101, 115>>, sub |-> <<100, 101, 118, 105, 99, 101, 115>>, discover |-> FALSE],
    [id |-> <<105, 100, 101, 110, 116, 105, 116, 121>>, sub |-> <<105, 100, 101, 110, 116, 105, 116, 121>>, discover |-> FALSE],
    [id |-> <<116, 101, 108, 101, 103, 114, 97, 109>>, sub |-> <<116, 101, 108, 101, 103, 114, 97, 109>>, discover |-> FALSE],
    [id |-> <<97, 103, 101, 110, 116, 115>>, sub |-> <<97, 103, 101, 110, 116, 115>>, discover |-> FALSE],
    [id |-> <<115, 117, 98, 97, 103, 101, 110, 116, 115>>, sub |-> <<115, 117, 98, 97, 103, 101, 110, 116, 115>>, discover |-> FALSE],
    [id |-> <<108, 111, 103, 45, 109, 111, 110, 105, 116, 111, 114>>, sub |-> <<108, 111, 103, 45, 109, 111, 110, 105, 116, 111, 114>>, discover |-> FALSE] >>

CategoryIds == {CATEGORIES[i].id : i \in 1..Len(CATEGORIES)}

\* existsSync(p), stat(p).isFile(), stat(p).isDirectory()
existsSync(p) == p \in DOMAIN files \/ p \in dirs
isFile(p) == p \in DOMAIN files
isDirectory(p) == p \in dirs

\* readdir(dir): the names of the entries of dir, in listing order.
Children(dir) ==
    {q[Len(q)] : q \in {r \in (DOMAIN files) \cup dirs :
                          Len(r) = Len(dir) + 1 /\ SubSeq(r, 1, Len(dir)) = dir}}
readdir(dir) == SortStrs(Children(dir))

\* The workspace both createBackup and restoreBackup pick.
Workspace ==
    IF existsSync(ClawdDir) THEN ClawdDir ELSE OcDir \o <<S_workspace>>

\* discoverWorkspaces(ocDir, primaryWorkspace)
discoverWorkspaces(oc, primaryWorkspace) ==
    LET found == IF isDirectory(oc)
                 THEN SelectSeq(readdir(oc),
                        LAMBDA n : isDirectory(oc \o <<n>>)
                                   /\ StartsWith(n, S_workspace_dash))
                 ELSE <<>>
    IN  <<primaryWorkspace>> \o [i \in 1..Len(found) |-> oc \o <<found[i]>>]

\* cat.paths(ocDir, workspace)
CatPaths(cat, oc, ws) ==
    IF cat.discover THEN discoverWorkspaces(oc, ws) ELSE <<oc \o <<cat.sub>>>>

\* CATEGORIES.find((c) => c.id === catId)
FindCategory(catId) ==
    LET hits == {i \in 1..Len(CATEGORIES) : CATEGORIES[i].id = catId}
    IN  IF hits = {} THEN [found |-> FALSE, cat |-> CATEGORIES[1]]
        ELSE [found |-> TRUE,
              cat |-> CATEGORIES[CHOOSE i \in hits : \A j \in hits : i <= j]]

----------------------------------------------------------------------------
(* collectFiles                                                            *)

SkippedNames == {S_node_modules, S_dot_git, S_dot_cache}

\* path.join of segments
PathJoin(segs) == Join(segs, SLASH)

\* walk(dir, relBase) and its loop over the entries of dir; the result is
\* the list of [name, abs] pushed.
RECURSIVE walk(_, _, _)
RECURSIVE walkEntries(_, _, _, _)
walk(dir, relBase, prefix) ==
    IF ~isDirectory(dir) THEN <<>>
    ELSE walkEntries(readdir(dir), dir, relBase, prefix)
walkEntries(entries, dir, relBase, prefix) ==
    IF entries = <<>> THEN <<>>
    ELSE LET entry == Head(entries)
             abs   == dir \o <<entry>>
             here  == IF entry \in SkippedNames THEN <<>>
                      ELSE IF isFile(abs)
                      THEN <<[name |-> PathJoin(<<prefix>> \o relBase \o <<entry>>),
                              abs  |-> abs]>>
                      ELSE IF isDirectory(abs)
                      THEN walk(abs, relBase \o <<entry>>, prefix)
                      ELSE <<>>
         IN  here \o walkEntries(Tail(entries), dir, relBase, prefix)

RECURSIVE collectFiles(_, _)
collectFiles(paths, prefix) ==
    IF paths = <<>> THEN <<>>
    ELSE LET p    == Head(paths)
             here == IF ~existsSync(p) THEN <<>>
                     ELSE IF isFile(p)
                     THEN <<[name |-> PathJoin(<<prefix, p[Len(p)]>>), abs |-> p]>>
                     ELSE walk(p, <<>>, prefix)
         IN  here \o collectFiles(Tail(paths), prefix)

----------------------------------------------------------------------------
(* createBackup                                                            *)

Fill(n, b) == [i \in 1..n |-> b]

\* `openclaw-backup-${ts}.ocbak`: ts is toISOString() cut after the
\* seconds, so it names the second of t and nothing finer.
ArchiveName(t) ==
    [base |-> "openclaw-backup-", ts |-> t \div 1000, ext |-> ".ocbak"]

\* A faulty variant of EnabledCats that leaves out a category none of
\* whose roots exists.
EnabledCatsWithRoot(enabled) ==
    SelectSeq(CATEGORIES,
              LAMBDA c : /\ c.id \in enabled
                         /\ LET ps == CatPaths(c, OcDir, Workspace)
                            IN  \E i \in 1..Len(ps) : existsSync(ps[i]))

\* CATEGORIES.filter((c) => config.categories[c.id])
EnabledCats(enabled) == SelectSeq(CATEGORIES, LAMBDA c : c.id \in enabled)

\* The loop over the enabled categories: allFiles.
RECURSIVE CollectAll(_)
CollectAll(cats) ==
    IF cats = <<>> THEN <<>>
    ELSE collectFiles(CatPaths(Head(cats), OcDir, Workspace), Head(cats).id)
         \o CollectAll(Tail(cats))

\* The loop over allFiles: readFile of each, a file that cannot be read
\* is skipped.
ReadAll(allFiles) ==
    LET readable == SelectSeq(allFiles, LAMBDA f : f.abs \in DOMAIN files)
    IN  [i \in 1..Len(readable) |->
            [name |-> readable[i].name, abs |-> readable[i].abs,
             content |-> files[readable[i].abs]]]

\* The manifest as built before packing.
NewManifest(cats, allFiles) ==
    [version    |-> <<49>>,
     createdAt  |-> now,
     hostname   |-> HostName,
     categories |-> [i \in 1..Len(cats) |-> cats[i].id],
     fileCount  |-> Len(allFiles),
     totalBytes |-> 0]

\* A faulty variant of SealParts that takes the salt from the passphrase
\* instead of the draw.
SealPartsKeyedSalt(passphrase, salt, iv, gzipped) ==
    LET fixed     == Fill(SALT_LEN, Len(passphrase))
        key       == deriveKey(passphrase, fixed)
        encrypted == Encrypt(key, iv, gzipped)
        authTag   == AuthTag(key, iv, encrypted)
    IN  [salt |-> fixed, iv |-> iv, authTag |-> authTag, encrypted |-> encrypted]

\* The four values createBackup computes for the file: the two draws, the
\* ciphertext and the tag of the cipher.
SealParts(passphrase, salt, iv, gzipped) ==
    LET key       == deriveKey(passphrase, salt)
        encrypted == Encrypt(key, iv, gzipped)
        authTag   == AuthTag(key, iv, encrypted)
    IN  [salt |-> salt, iv |-> iv, authTag |-> authTag, encrypted |-> encrypted]

\* Buffer.concat([MAGIC, salt, iv, authTag, encrypted])
SealArchive(passphrase, salt, iv, gzipped) ==
    LET p == SealParts(passphrase, salt, iv, gzipped)
    IN  MAGIC \o p.salt \o p.iv \o p.authTag \o p.encrypted

\* Everything createBackup computes before it writes the archive.  The
\* readFile of a collected file whose path is in unreadable throws, and
\* the loop skips the file.
CreatePlanWith(passphrase, enabled, salt, iv, unreadable) ==
    LET cats     == EnabledCats(enabled)
        allFiles == CollectAll(cats)
        manifest == NewManifest(cats, allFiles)
        read     == ReadAll(SelectSeq(allFiles, LAMBDA f : f.abs \notin unreadable))
        tarBuf   == BuildTar(ManifestJson(manifest), read, now)
        gzipped  == gzipSync(tarBuf)
        output   == SealArchive(passphrase, salt, iv, gzipped)
    IN  [pc       |-> "write",
         pass     |-> passphrase,
         enabled  |-> enabled,
         sealed   |-> SealParts(passphrase, salt, iv, gzipped),
         filename |-> ArchiveName(now),
         output   |-> output,
         read     |-> read,
         collected |-> Len(allFiles),
         tar      |-> tarBuf,
         manifest |-> [manifest EXCEPT !.totalBytes = Len(tarBuf)]]

\* The same when every collected file can be read.
CreatePlan(passphrase, enabled, salt, iv) ==
    CreatePlanWith(passphrase, enabled, salt, iv, {})

CrIdle == [pc |-> "idle"]

\* createBackup up to the writeFile of the archive, with files that
\* cannot be read.
CreateBeginWith(c, passphrase, enabled, salt, iv, unreadable) ==
    /\ cr[c].pc = "idle"
    /\ bdirExists' = TRUE
    /\ cr' = [cr EXCEPT ![c] = CreatePlanWith(passphrase, enabled, salt, iv, unreadable)]
    /\ UNCHANGED <<now, files, dirs, bdir, created, made, rs, restores, hist, pr, edits>>

\* createBackup up to the writeFile of the archive.
CreateBegin(c, passphrase, enabled, salt, iv) ==
    /\ cr[c].pc = "idle"
    /\ bdirExists' = TRUE
    /\ cr' = [cr EXCEPT ![c] = CreatePlan(passphrase, enabled, salt, iv)]
    /\ UNCHANGED <<now, files, dirs, bdir, created, made, rs, restores, hist, pr, edits>>

\* writeFile(outPath, output) and the return of the result.
CreateWrite(c) ==
    /\ cr[c].pc = "write"
    /\ bdirExists
    /\ bdir' = [n \in (DOMAIN bdir) \cup {cr[c].filename} |->
                  IF n = cr[c].filename
                  THEN [data |-> cr[c].output, mtime |-> now]
                  ELSE bdir[n]]
    /\ created' = created + 1
    /\ made' = made \cup {[data     |-> cr[c].output,
                           pass     |-> cr[c].pass,
                           read     |-> cr[c].read,
                           path     |-> cr[c].filename,
                           enabled  |-> cr[c].enabled,
                           sealed   |-> cr[c].sealed,
                           collected |-> cr[c].collected,
                           manifest |-> cr[c].manifest,
                           sizeBytes |-> Len(cr[c].output)]}
    /\ cr' = [cr EXCEPT ![c] = CrIdle]
    /\ UNCHANGED <<now, files, dirs, bdirExists, rs, restores, hist, pr, edits>>

\* writeFile(outPath, output) seen by others while it runs: the file is
\* opened (created or cut to nothing) and its first k bytes are written.
WriteStart(c, k) ==
    /\ cr[c].pc = "write"
    /\ bdirExists
    /\ k \in 0..(Len(cr[c].output) - 1)
    /\ bdir' = [n \in (DOMAIN bdir) \cup {cr[c].filename} |->
                  IF n = cr[c].filename
                  THEN [data |-> SubSeq(cr[c].output, 1, k), mtime |-> now]
                  ELSE bdir[n]]
    /\ cr' = [cr EXCEPT ![c].pc = "writing"]
    /\ UNCHANGED <<now, files, dirs, bdirExists, created, made, rs, restores, hist, pr, edits>>

\* The rest is written and createBackup returns its result.
WriteFinish(c) ==
    /\ cr[c].pc = "writing"
    /\ bdir' = [bdir EXCEPT ![cr[c].filename] =
                  [data |-> cr[c].output, mtime |-> now]]
    /\ created' = created + 1
    /\ made' = made \cup {[data     |-> cr[c].output,
                           pass     |-> cr[c].pass,
                           read     |-> cr[c].read,
                           path     |-> cr[c].filename,
                           enabled  |-> cr[c].enabled,
                           sealed   |-> cr[c].sealed,
                           collected |-> cr[c].collected,
                           manifest |-> cr[c].manifest,
                           sizeBytes |-> Len(cr[c].output)]}
    /\ cr' = [cr EXCEPT ![c] = CrIdle]
    /\ UNCHANGED <<now, files, dirs, bdirExists, rs, restores, hist, pr, edits>>

\* The write fails midway (the disk is full) or the process dies:
\* createBackup has no handler that removes what was written.
WriteCrash(c) ==
    /\ cr[c].pc = "writing"
    /\ cr' = [cr EXCEPT ![c] = CrIdle]
    /\ UNCHANGED <<now, files, dirs, bdirExists, bdir, created, made, rs, restores, hist, pr, edits>>

----------------------------------------------------------------------------
(* restoreBackup                                                           *)

\* A faulty variant of MagicOk that compares bytes 1..5 only.
MagicTailOk(encrypted) ==
    SubArr(encrypted, 1, Len(MAGIC)) = SubArr(MAGIC, 1, Len(MAGIC))

\* encrypted.subarray(0, MAGIC.length).equals(MAGIC)
MagicOk(encrypted) == SubArr(encrypted, 0, Len(MAGIC)) = MAGIC

\* A faulty variant of ReadHeader that takes the tag before the nonce.
ReadHeaderTagFirst(encrypted) ==
    LET o1 == Len(MAGIC)
        o2 == o1 + SALT_LEN
        o3 == o2 + TAG_LEN
        o4 == o3 + IV_LEN
    IN  [salt      |-> SubArr(encrypted, o1, o1 + SALT_LEN),
         iv        |-> SubArr(encrypted, o3, o3 + IV_LEN),
         authTag   |-> SubArr(encrypted, o2, o2 + TAG_LEN),
         encrypted |-> SubArr(encrypted, o4, Len(encrypted))]

\* The four subarray reads of restoreBackup, offset moving on after each.
ReadHeader(encrypted) ==
    LET o1 == Len(MAGIC)
        o2 == o1 + SALT_LEN
        o3 == o2 + IV_LEN
        o4 == o3 + TAG_LEN
    IN  [salt      |-> SubArr(encrypted, o1, o1 + SALT_LEN),
         iv        |-> SubArr(encrypted, o2, o2 + IV_LEN),
         authTag   |-> SubArr(encrypted, o3, o3 + TAG_LEN),
         encrypted |-> SubArr(encrypted, o4, Len(encrypted))]

NoHeader == [salt |-> <<>>, iv |-> <<>>, authTag |-> <<>>, encrypted |-> <<>>]

\* From the read of the archive to the decompressed container: the magic
\* check, the header fields, the key, decryption and gunzip.  derived
\* counts the calls of deriveKey.
OpenArchive(encrypted, passphrase) ==
    IF ~MagicOk(encrypted)
    THEN [err |-> "InvalidArchive", derived |-> 0, tar |-> <<>>, hdr |-> NoHeader]
    ELSE
    LET h == ReadHeader(encrypted)
        salt == h.salt
        iv == h.iv
        authTag == h.authTag
        ciphertext == h.encrypted
        key == deriveKey(passphrase, salt)
    IN  IF ~CryptoArgsOk(iv, authTag)
        THEN [err |-> "CryptoApiError", derived |-> 1, tar |-> <<>>, hdr |-> h]
        ELSE IF ~DecryptOk(key, iv, authTag, ciphertext)
        THEN [err |-> "DecryptionFailed", derived |-> 1, tar |-> <<>>, hdr |-> h]
        ELSE LET gzipped == Decrypt(key, iv, ciphertext)
             IN  IF ~GunzipOk(gzipped)
                 THEN [err |-> "CorruptArchive", derived |-> 1, tar |-> <<>>, hdr |-> h]
                 ELSE [err |-> "none", derived |-> 1, tar |-> gunzipSync(gzipped),
                       hdr |-> h]

\* base.match(/\.[a-z]+$/i) on the path string of base: a dot and then
\* letters up to the end, which can only lie in the last segment.
LooksLikeFile(base) ==
    /\ base # <<>>
    /\ LET seg == base[Len(base)]
       IN  \E i \in 1..(Len(seg) - 1) :
              seg[i] = 46 /\ \A j \in (i + 1)..Len(seg) : IsLetter(seg[j])

\* path.resolve(base, relPath): an absolute relPath replaces base; "" and
\* "." segments vanish and ".." drops the segment before it.
RECURSIVE Normalize(_, _)
Normalize(stack, segs) ==
    IF segs = <<>> THEN stack
    ELSE LET g == Head(segs)
         IN  IF g = <<>> \/ g = <<46>> THEN Normalize(stack, Tail(segs))
             ELSE IF g = <<46, 46>>
             THEN Normalize(IF stack = <<>> THEN <<>>
                            ELSE SubSeq(stack, 1, Len(stack) - 1), Tail(segs))
             ELSE Normalize(stack \o <<g>>, Tail(segs))

resolve(base, relPath) ==
    IF relPath # <<>> /\ relPath[1] = SLASH
    THEN Normalize(<<>>, Split(relPath, SLASH))
    ELSE Normalize(base, Split(relPath, SLASH))

\* dirname(p)
dirname(p) == IF p = <<>> THEN <<>> ELSE SubSeq(p, 1, Len(p) - 1)

\* A faulty variant of OutPath that joins the remaining path to a base
\* that is a file path too.
OutPathAlwaysJoined(catDef, catId, name, ws) ==
    LET relPath == StrSlice(name, Len(catId) + 1, Len(name))
        base    == CatPaths(catDef, OcDir, ws)[1]
    IN  IF relPath = <<>> THEN base ELSE resolve(base, relPath)

\* The destination of an entry of category catDef.
OutPath(catDef, catId, name, ws) ==
    LET relPath == StrSlice(name, Len(catId) + 1, Len(name))
        base    == CatPaths(catDef, OcDir, ws)[1]
    IN  IF relPath = <<>> THEN base
        ELSE IF LooksLikeFile(base) THEN base
        ELSE resolve(base, relPath)

\* mkdir(d, {recursive: true}) throws when d or an ancestor is a file.
MkdirOk(d) == \A k \in 1..Len(d) : SubSeq(d, 1, k) \notin DOMAIN files
Ancestors(d) == {SubSeq(d, 1, k) : k \in 0..Len(d)}
\* writeFile(p, ...) throws when p is a directory.
WriteOk(p) == p \notin dirs /\ p # <<>>

\* One header block decoded as the scan decodes it.
EntryAt(tar, pos) ==
    LET header  == SubArr(tar, pos, pos + BLOCK)
        name    == StripNul(SubArr(header, 0, 100))
        sizeStr == Trim(StripNul(SubArr(header, 124, 136)))
        parsed  == ParseInt(sizeStr, 8)
        size    == IF parsed.nan THEN 0 ELSE parsed.val
        pos1    == pos + BLOCK
        rem     == IF size >= 0 THEN size % BLOCK
                   ELSE 0 - ((0 - size) % BLOCK)
    IN  [name    |-> name,
         size    |-> size,
         content |-> SubArr(tar, pos1, pos1 + size),
         next    |-> pos1 + size + (IF rem > 0 THEN BLOCK - rem ELSE 0)]

\* The scan stops at the end of the buffer or at an all-zero block.
ScanEnds(tar, pos) ==
    \/ pos + BLOCK > Len(tar)
    \/ LET header == SubArr(tar, pos, pos + BLOCK)
       IN  \A i \in 1..Len(header) : header[i] = 0

\* A faulty variant of Selected that forgets the category filter.
SelectedWithoutFilter(name, filter) ==
    LET catId == Split(name, SLASH)[1]
    IN  name # MANIFEST_NAME /\ FindCategory(catId).found

\* A faulty variant of Writes that writes in a dry-run too.
WritesAlways(dryRun) == TRUE

\* if (!options.dryRun): whether a selected entry is written to disk.
Writes(dryRun) == ~dryRun

\* Whether the loop body reaches the write (or the dry-run log) for an
\* entry named name.
Selected(name, filter) ==
    LET catId == Split(name, SLASH)[1]
    IN  /\ name # MANIFEST_NAME
        /\ (filter.given => catId \in filter.ids)
        /\ FindCategory(catId).found

NoFilter == [given |-> FALSE, ids |-> {}]

\* restoredCategories.add(catId) on a Set, kept in insertion order.
SetAdd(seq, x) ==
    IF \E i \in 1..Len(seq) : seq[i] = x THEN seq ELSE Append(seq, x)

RsIdle == [pc |-> "idle"]

\* restoreBackup from the read of the archive to the start of the scan;
\* o is OpenArchive(encrypted, passphrase).
RestoreBegin(o, encrypted, passphrase, filter, dryRun) ==
    /\ rs.pc \in {"idle", "done", "failed"}
    /\ rs' =     [pc        |-> IF o.err = "none" THEN "scan" ELSE "failed",
                  err       |-> o.err,
                  derived   |-> o.derived,
                  hdr       |-> o.hdr,
                  opened    |-> o.err = "none",
                  encrypted |-> encrypted,
                  pass      |-> passphrase,
                  filter    |-> filter,
                  dryRun    |-> dryRun,
                  tar       |-> o.tar,
                  pos       |-> 0,
                  ws        |-> Workspace,
                  manifest  |-> [set |-> FALSE, val |-> <<>>],
                  cats      |-> <<>>,
                  fileCount |-> 0,
                  scanned   |-> <<>>,
                  seen      |-> <<>>,
                  handled   |-> <<>>,
                  ops       |-> <<>>,
                  files0    |-> files,
                  dirs0     |-> dirs]
    /\ restores' = restores + 1
    /\ UNCHANGED <<now, files, dirs, bdirExists, bdir, cr, created, made, hist, pr, edits>>

\* name, size and content of one iteration of the scan.
Triple(e) == [name |-> e.name, size |-> e.size, content |-> e.content]

\* The return of restoreBackup once the scan has ended.
RestoreReturn ==
    /\ rs' = [rs EXCEPT !.pc = "done", !.tar = <<>>]
    /\ hist' = hist \cup {[encrypted |-> rs.encrypted, pass |-> rs.pass,
                           filter |-> rs.filter, dryRun |-> rs.dryRun,
                           fileCount |-> rs.fileCount, cats |-> rs.cats,
                           manifest |-> rs.manifest]}
    /\ UNCHANGED <<files, dirs>>

\* The loop body for the manifest entry.
RestoreManifest(e) ==
    /\ IF JsonParseOk(e.content)
       THEN rs' = [rs EXCEPT !.pos = e.next,
                             !.scanned = Append(@, e.name),
                             !.seen = Append(@, Triple(e)),
                             !.manifest = [set |-> TRUE, val |-> JsonParse(e.content)]]
       ELSE rs' = [rs EXCEPT !.pc = "failed", !.err = "SyntaxError", !.tar = <<>>]
    /\ UNCHANGED <<files, dirs, hist>>

\* The loop body for an entry the filter or the registry skips.
RestoreSkip(e) ==
    /\ rs' = [rs EXCEPT !.pos = e.next, !.scanned = Append(@, e.name),
                        !.seen = Append(@, Triple(e))]
    /\ UNCHANGED <<files, dirs, hist>>

\* The loop body for an entry that is written, or logged in a dry-run.
RestoreEntry(e) ==
    LET catId  == Split(e.name, SLASH)[1]
        catDef == FindCategory(catId).cat
        out    == OutPath(catDef, catId, e.name, rs.ws)
        dir    == dirname(out)
        counted == [rs EXCEPT !.pos = e.next,
                              !.scanned = Append(@, e.name),
                              !.seen = Append(@, Triple(e)),
                              !.handled = Append(@, [name |-> e.name, out |-> out]),
                              !.cats = SetAdd(@, catId),
                              !.fileCount = @ + 1]
    IN  /\ UNCHANGED hist
        /\ IF ~Writes(rs.dryRun)
           THEN rs' = counted /\ UNCHANGED <<files, dirs>>
           ELSE IF ~MkdirOk(dir)
           THEN /\ rs' = [rs EXCEPT !.pc = "failed", !.err = "FsError", !.tar = <<>>]
                /\ UNCHANGED <<files, dirs>>
           ELSE IF ~WriteOk(out)
           THEN /\ rs' = [rs EXCEPT !.pc = "failed", !.err = "FsError", !.tar = <<>>,
                                    !.ops = Append(@, [op |-> "mkdir", path |-> dir])]
                /\ dirs' = dirs \cup Ancestors(dir)
                /\ UNCHANGED files
           ELSE /\ rs' = [counted EXCEPT
                            !.ops = @ \o <<[op |-> "mkdir", path |-> dir],
                                           [op |-> "writeFile", path |-> out]>>]
                /\ dirs' = dirs \cup Ancestors(dir)
                /\ files' = [q \in (DOMAIN files) \cup {out} |->
                               IF q = out THEN e.content ELSE files[q]]

\* One iteration of the scan loop, or its end.
RestoreStep ==
    /\ rs.pc = "scan"
    /\ IF ScanEnds(rs.tar, rs.pos) THEN RestoreReturn
       ELSE LET e == EntryAt(rs.tar, rs.pos)
            IN  IF e.name = MANIFEST_NAME THEN RestoreManifest(e)
                ELSE IF Selected(e.name, rs.filter) THEN RestoreEntry(e)
                ELSE RestoreSkip(e)
    /\ UNCHANGED <<now, bdirExists, bdir, cr, created, made, restores, pr, edits>>

----------------------------------------------------------------------------
(* listBackups and pruneBackups                                            *)

DAY_MS == 86400000

\* entry.endsWith(".ocbak")
IsArchiveName(n) == n.ext = ".ocbak"

\* The .ocbak files of a directory content d (a function on names).
ArchivesIn(d) == {n \in DOMAIN d : IsArchiveName(n)}

\* readdir(backupDir): the names in one of the orders a file system
\* gives them, here by name upwards or downwards.
RECURSIVE NamesInOrder(_, _)
NamesInOrder(S, up) ==
    IF S = {} THEN <<>>
    ELSE LET n == CHOOSE x \in S :
                     \A y \in S : IF up THEN x.ts <= y.ts ELSE x.ts >= y.ts
         IN  <<n>> \o NamesInOrder(S \ {n}, up)

\* A faulty variant of SortNewestFirst that leaves the listing as
\* readdir gave it.
Unsorted(bs) == bs

\* backups.sort((a, b) => b.createdAt - a.createdAt): newest first, and
\* stable: equal times keep their order.
RECURSIVE SortNewestFirst(_)
SortNewestFirst(bs) ==
    IF bs = <<>> THEN <<>>
    ELSE LET rest == SortNewestFirst(Tail(bs))
             b    == Head(bs)
             k    == Cardinality({i \in 1..Len(rest) : rest[i].createdAt > b.createdAt})
         IN  SubSeq(rest, 1, k) \o <<b>> \o SubSeq(rest, k + 1, Len(rest))

\* The loop of listBackups over entries: the .ocbak names with their
\* stat, sorted.  It is defined when every such name still exists.
StatOk(entries) ==
    \A i \in 1..Len(entries) :
        IsArchiveName(entries[i]) => entries[i] \in DOMAIN bdir

\* A faulty variant of listBackups that lists every entry of the
\* directory, whatever its name ends with.
listAllEntries(entries) ==
    SortNewestFirst([i \in 1..Len(entries) |->
                       [filename  |-> entries[i],
                        sizeBytes |-> Len(bdir[entries[i]].data),
                        createdAt |-> bdir[entries[i]].mtime]])

listBackups(entries) ==
    LET names == SelectSeq(entries, IsArchiveName)
    IN  SortNewestFirst([i \in 1..Len(names) |->
                           [filename  |-> names[i],
                            sizeBytes |-> Len(bdir[names[i]].data),
                            createdAt |-> bdir[names[i]].mtime]])

\* A faulty variant of Slice that starts one element early.
SliceOneEarly(seq, start) ==
    LET from == IF start - 1 < 0 THEN Max(Len(seq) + start - 1, 0)
                ELSE Min(start - 1, Len(seq))
    IN  SubSeq(seq, from + 1, Len(seq))

\* Array.prototype.slice(start) for any integer start.
Slice(seq, start) ==
    LET from == IF start < 0 THEN Max(Len(seq) + start, 0) ELSE Min(start, Len(seq))
    IN  SubSeq(seq, from + 1, Len(seq))

\* A faulty variant of TooOld for which no archive is too old.
NeverTooOld(b, t, maxAge) == FALSE

\* now - b.createdAt.getTime() > maxAge
TooOld(b, t, maxAge) == t - b.createdAt > maxAge

PrIdle == [pc |-> "idle", calls |-> 0, ext |-> 0]

PrRunning == pr.pc \in {"list", "stat", "age", "relist", "restat", "count"}

\* The call of pruneBackups.  dir0 and callTime remember the directory
\* and the clock at the call, alone that nobody else has changed the
\* directory since.
PruneCall(maxBackups, maxAgeDays) ==
    /\ ~PrRunning
    /\ pr' = [pc |-> "list", calls |-> pr.calls + 1, ext |-> pr.ext,
              maxBackups |-> maxBackups, maxAgeDays |-> maxAgeDays,
              callTime |-> now, dir0 |-> bdir, alone |-> TRUE,
              entries |-> <<>>, backups |-> <<>>, idx |-> 1,
              now |-> 0, maxAge |-> 0,
              pruned |-> <<>>, byAge |-> {}, byCount |-> {},
              after |-> <<>>, err |-> "none"]
    /\ UNCHANGED <<now, files, dirs, bdirExists, bdir, cr, created, made, rs, restores, hist, edits>>

\* existsSync(backupDir) and readdir(backupDir) of listBackups, for the
\* first listing (pc "list") and the second (pc "relist").
PruneReaddir ==
    /\ pr.pc \in {"list", "relist"}
    /\ \E up \in BOOLEAN :
          pr' = [pr EXCEPT
                   !.pc = IF pr.pc = "list" THEN "stat" ELSE "restat",
                   !.entries = IF bdirExists THEN NamesInOrder(DOMAIN bdir, up)
                               ELSE <<>>]
    /\ UNCHANGED <<now, files, dirs, bdirExists, bdir, cr, created, made, rs, restores, hist, edits>>

\* stat of a name that is gone, or unlink of one: the promise rejects
\* and pruneBackups with it.
PruneFails ==
    pr' = [pr EXCEPT !.pc = "failed", !.err = "ENOENT", !.after = bdir]

\* The stat loop of the first listing, then Date.now() and maxAge.
PruneStat ==
    /\ pr.pc = "stat"
    /\ IF ~StatOk(pr.entries) THEN PruneFails
       ELSE pr' = [pr EXCEPT !.pc = "age",
                             !.entries = <<>>,
                             !.backups = listBackups(pr.entries),
                             !.idx = 1,
                             !.now = now,
                             !.maxAge = pr.maxAgeDays * DAY_MS]
    /\ UNCHANGED <<now, files, dirs, bdirExists, bdir, cr, created, made, rs, restores, hist, edits>>

\* unlink(b.path) and pruned.push(b.filename), shared by the two loops.
Unlink(b, phase) ==
    IF b.filename \notin DOMAIN bdir
    THEN PruneFails /\ UNCHANGED bdir
    ELSE /\ bdir' = [n \in (DOMAIN bdir) \ {b.filename} |-> bdir[n]]
         /\ pr' = [pr EXCEPT !.idx = @ + 1,
                             !.pruned = Append(@, b.filename),
                             !.byAge = IF phase = "age" THEN @ \cup {b.filename} ELSE @,
                             !.byCount = IF phase = "count" THEN @ \cup {b} ELSE @]

\* One iteration of the loop by age, or its end.
PruneAge ==
    /\ pr.pc = "age"
    /\ IF pr.idx > Len(pr.backups)
       THEN pr' = [pr EXCEPT !.pc = "relist"] /\ UNCHANGED bdir
       ELSE LET b == pr.backups[pr.idx]
            IN  IF TooOld(b, pr.now, pr.maxAge)
                THEN Unlink(b, "age")
                ELSE pr' = [pr EXCEPT !.idx = @ + 1] /\ UNCHANGED bdir
    /\ UNCHANGED <<now, files, dirs, bdirExists, cr, created, made, rs, restores, hist, edits>>

\* The stat loop of the second listing and the choice of toRemove.
PruneRestat ==
    /\ pr.pc = "restat"
    /\ IF ~StatOk(pr.entries) THEN PruneFails
       ELSE LET remaining == listBackups(pr.entries)
            IN  pr' = [pr EXCEPT
                         !.pc = "count",
                         !.entries = <<>>,
                         !.idx = 1,
                         !.backups = IF Len(remaining) > pr.maxBackups
                                     THEN Slice(remaining, pr.maxBackups)
                                     ELSE <<>>]
    /\ UNCHANGED <<now, files, dirs, bdirExists, bdir, cr, created, made, rs, restores, hist, edits>>

\* One iteration of the loop by count, or the return of pruned.
PruneCount ==
    /\ pr.pc = "count"
    /\ IF pr.idx > Len(pr.backups)
       THEN pr' = [pr EXCEPT !.pc = "done", !.after = bdir] /\ UNCHANGED bdir
       ELSE Unlink(pr.backups[pr.idx], "count")
    /\ UNCHANGED <<now, files, dirs, bdirExists, cr, created, made, rs, restores, hist, edits>>

----------------------------------------------------------------------------
(* download.ts: createDownloadLink and the download handler                *)

\* expiryMs as index.ts passes it: 10 * 60 * 1000
EXPIRY_MS == 600000

\* activeTokens and expiryTimers are empty, no request has arrived.
\* issued, fired and completed remember every token ever issued with its
\* expiresAt, the tokens whose timer has fired and those whose download
\* has streamed to its end.
DlInit == [tokens |-> <<>>, timers |-> <<>>, reqs |-> <<>>,
           issued |-> <<>>, fired |-> {}, completed |-> {}]

\* m without the key k
MapDelete(m, k) == [x \in (DOMAIN m) \ {k} |-> m[x]]

\* m with k set to v
MapSet(m, k, v) == [x \in (DOMAIN m) \cup {k} |-> IF x = k THEN v ELSE m[x]]

\* A faulty variant of invalidateToken that leaves the timer in place.
invalidateKeepsTimer(d, token) ==
    IF token \notin DOMAIN d.tokens THEN d
    ELSE [d EXCEPT !.tokens = MapDelete(@, token)]

\* invalidateToken(token): nginxConfPath is null for every entry, so the
\* function runs to its end without waiting.
invalidateToken(d, token) ==
    IF token \notin DOMAIN d.tokens THEN d
    ELSE [d EXCEPT !.timers = MapDelete(@, token),
                   !.tokens = MapDelete(@, token)]

\* createDownloadLink(filePath, {expiryMs}) for a file that exists: stat
\* succeeds, the token is drawn, the entry and its timer are set.
createDownloadLink(filePath, expiryMs) ==
    /\ filePath \in DOMAIN bdir
    /\ LET token == rng + 1
       IN  dl' = [dl EXCEPT
                    !.tokens = MapSet(@, token, [filePath  |-> filePath,
                                                 createdAt |-> now,
                                                 expiresAt |-> now + expiryMs,
                                                 oneTime   |-> TRUE,
                                                 consumed  |-> FALSE]),
                    !.timers = MapSet(@, token, now + expiryMs),
                    !.issued = MapSet(@, token, now + expiryMs)]
    /\ rng' = rng + 1

\* The expiry timer of a token fires, at its time or later.
TimerFire(token) ==
    /\ token \in DOMAIN dl.timers
    /\ now >= dl.timers[token]
    /\ dl' = [invalidateToken(dl, token) EXCEPT !.fired = @ \cup {token}]

\* The answer of request r with a status and no body stream.
Answer(d, r, token, status) ==
    [d EXCEPT !.reqs = MapSet(@, r, [token |-> token, pc |-> "answered",
                                     status |-> status, at |-> now,
                                     known |-> token \in DOMAIN dl.tokens])]

\* The handler from the arrival of a request for /ark/download/<token>
\* to its answer or to the stat of the file.
DownloadRequest(r, token) ==
    /\ r \notin DOMAIN dl.reqs
    /\ IF token \notin DOMAIN dl.tokens
       THEN dl' = Answer(dl, r, token, 404)
       ELSE LET entry == dl.tokens[token]
            IN  IF now > entry.expiresAt
                THEN dl' = Answer(invalidateToken(dl, token), r, token, 410)
                ELSE IF entry.oneTime /\ entry.consumed
                THEN dl' = Answer(invalidateToken(dl, token), r, token, 410)
                ELSE dl' = [dl EXCEPT !.reqs = MapSet(@, r,
                               [token |-> token, pc |-> "stat", status |-> 0,
                                at |-> now, known |-> TRUE,
                                filePath |-> entry.filePath])]

\* stat(entry.filePath) returns: 200 and the stream starts, or 404.
DownloadStat(r) ==
    /\ r \in DOMAIN dl.reqs
    /\ dl.reqs[r].pc = "stat"
    /\ IF dl.reqs[r].filePath \in DOMAIN bdir
       THEN dl' = [dl EXCEPT !.reqs[r].pc = "streaming", !.reqs[r].status = 200]
       ELSE dl' = [dl EXCEPT !.reqs[r].pc = "answered", !.reqs[r].status = 404]

\* stream "end": entry.consumed = true and invalidateToken.  The entry is
\* the object the handler holds; the table has it unless it was deleted.
DownloadEnd(r) ==
    /\ r \in DOMAIN dl.reqs
    /\ dl.reqs[r].pc = "streaming"
    /\ LET token == dl.reqs[r].token
       IN  dl' = [invalidateToken(dl, token) EXCEPT
                    !.reqs[r].pc = "answered",
                    !.completed = @ \cup {token}]

\* stream "error" after the headers were sent: nothing is changed.
DownloadError(r) ==
    /\ r \in DOMAIN dl.reqs
    /\ dl.reqs[r].pc = "streaming"
    /\ dl' = [dl EXCEPT !.reqs[r].pc = "answered"]

----------------------------------------------------------------------------
(* index.ts: the backup_create tool, the CLI create command, /ark backup   *)

MIN_PASSPHRASE == 8

EntryPoints == {"tool", "cli", "ark"}

EpIdle == [pc |-> "idle", calls |-> 0]

\* subArgs.trim() of /ark backup: the words of the arguments, split at
\* white space and joined by single spaces.
ArkPassphrase(raw) ==
    LET words == SelectSeq(Split(Trim(raw), 32), LAMBDA w : w # <<>>)
    IN  Trim(Join(words, 32))

\* The passphrase an entry point takes from what it is given.
PassphraseOf(point, raw) == IF point = "ark" THEN ArkPassphrase(raw) ELSE raw

\* A faulty variant of Rejects that lets every passphrase through.
RejectsNothing(point, pass) == FALSE

\* The checks before createBackup: params.passphrase.length < 8 in the
\* tool, !pass and pass.length < 8 in the CLI, !passphrase ||
\* passphrase.length < 8 in /ark backup.
Rejects(point, pass) ==
    IF point = "tool" THEN Len(pass) < MIN_PASSPHRASE
    ELSE pass = <<>> \/ Len(pass) < MIN_PASSPHRASE

\* An entry point is called: it rejects the passphrase and returns, or
\* calls createBackup.
EntryCall(point, raw, enabled, salt, iv) ==
    /\ ep.pc \in {"idle", "rejected", "finished", "failed"}
    /\ LET pass == PassphraseOf(point, raw)
       IN  IF Rejects(point, pass)
           THEN /\ ep' = [pc |-> "rejected", calls |-> ep.calls + 1, point |-> point]
                /\ UNCHANGED <<engineVars, dl, rng>>
           ELSE /\ CreateBegin(1, pass, enabled, salt, iv)
                /\ ep' = [pc |-> "create", calls |-> ep.calls + 1, point |-> point]
                /\ rng' = rng + 2
                /\ UNCHANGED dl

\* createBackup returns its result.
EntryCreated ==
    /\ ep.pc = "create"
    /\ CreateWrite(1)
    /\ ep' = [pc |-> "created", calls |-> ep.calls, point |-> ep.point,
              path |-> cr[1].filename]
    /\ UNCHANGED <<dl, rng>>

\* The call of pruneBackups that follows.
EntryPrune(maxBackups, maxAgeDays) ==
    /\ ep.pc = "created"
    /\ PruneCall(maxBackups, maxAgeDays)
    /\ ep' = [ep EXCEPT !.pc = "prune"]
    /\ UNCHANGED <<dl, rng>>

\* pruneBackups has returned: the tool and /ark backup make a download
\* link, and go on without one when createDownloadLink throws; the CLI
\* is done.
EntryLink ==
    /\ ep.pc = "prune" /\ pr.pc = "done"
    /\ ep' = [ep EXCEPT !.pc = "finished"]
    /\ IF ep.point # "cli" /\ ep.path \in DOMAIN bdir
       THEN createDownloadLink(ep.path, EXPIRY_MS)
       ELSE UNCHANGED <<dl, rng>>
    /\ UNCHANGED engineVars

\* pruneBackups has rejected: the entry point ends without a link.
EntryPruneFailed ==
    /\ ep.pc = "prune" /\ pr.pc = "failed"
    /\ ep' = [ep EXCEPT !.pc = "failed"]
    /\ UNCHANGED <<engineVars, dl, rng>>

----------------------------------------------------------------------------
(* The inputs and the world around the engine                              *)

MaxCreates == 1
MaxRestores == 1
MaxEdits == 1
NRand == 1

PASS_A == <<99, 111, 114, 114, 101, 99, 116, 32, 104, 111, 114, 115, 101>>  \* "correct horse"
PASS_B == <<98, 97, 116, 116, 101, 114, 121, 32, 115, 116, 97, 112, 108, 101>>  \* "battery staple"
Passphrases == {PASS_A, PASS_B}

\* randomBytes(SALT_LEN), randomBytes(IV_LEN): any bytes; these are drawn.
RandomSalt(r) == Fill(SALT_LEN, r)
RandomIv(r) == Fill(IV_LEN, 100 + r)

\* config.categories: everything enabled (the default), or two categories.
EnabledChoices == {CategoryIds, {S_config, S_brain}}

\* options.categories of restoreBackup
Filters == {NoFilter,
            [given |-> TRUE, ids |-> {S_config}],
            [given |-> TRUE, ids |-> {S_brain, S_evil}]}

CONTENT_A == <<123, 125>>                    \* "{}"
CONTENT_B == <<35, 32, 76, 111, 103, 10>>    \* "# Log\n"
Contents == {CONTENT_B, <<>>}

ConfigFile == OcDir \o <<S_openclaw_json>>
BrainFile == OcDir \o <<S_brain, S_data_json>>
AgentsFile == ClawdDir \o <<S_AGENTS_md>>
AgentsFileX == OcDir \o <<S_workspace_x, S_AGENTS_md>>
EditablePaths == {BrainFile, AgentsFileX}

\* The data tree of an installation with one workspace.
InitFiles ==
    [q \in {ConfigFile, BrainFile, AgentsFile} |->
        IF q = BrainFile THEN CONTENT_B ELSE CONTENT_A]
InitDirs == UNION {Ancestors(dirname(q)) : q \in DOMAIN InitFiles}

\* No createBackup and no restoreBackup is between its first and its last
\* step: the engine is used one operation at a time.
Quiet == rs.pc # "scan" /\ \A c \in DOMAIN cr : cr[c].pc = "idle"

\* Someone writes a file of the data tree (creating its directories).  rs
\* describes the last restoreBackup call and the tree it left; a later
\* change of the tree ends that.
EditFile(path, content) ==
    /\ edits < MaxEdits
    /\ Quiet
    /\ MkdirOk(dirname(path)) /\ WriteOk(path)
    /\ ~(path \in DOMAIN files /\ files[path] = content)
    /\ files' = [q \in (DOMAIN files) \cup {path} |->
                   IF q = path THEN content ELSE files[q]]
    /\ dirs' = dirs \cup Ancestors(dirname(path))
    /\ edits' = edits + 1
    /\ rs' = RsIdle
    /\ UNCHANGED <<now, bdirExists, bdir, cr, created, made, restores, hist, pr>>

\* The archives are carried to a fresh system: the data tree is empty.
Migrate ==
    /\ edits < MaxEdits
    /\ Quiet
    /\ files # <<>>
    /\ files' = <<>>
    /\ dirs' = Ancestors(HomeDir)
    /\ edits' = edits + 1
    /\ rs' = RsIdle
    /\ UNCHANGED <<now, bdirExists, bdir, cr, created, made, restores, hist, pr>>

\* A file at archivePath with one byte changed.
Tamper(data, k) == [data EXCEPT ![k] = (@ + 1) % 256]
\* Bytes 1, 7, 39: magic, salt, iv; 55 and 70: the first and last byte of
\* the tag; 71 and the last: the first and last byte of the ciphertext.

\* A file at archivePath cut after its first k bytes: the magic alone, a
\* part of the salt, of the nonce, of the tag, or all but the last byte
\* of the header.
Truncate(data, k) == SubSeq(data, 1, k)
TruncatedLengths == {6, 20, 45, 60, 62, 69}

\* Files that are no archive of this engine.
ForeignFiles == { <<110, 111, 116, 32, 97, 32, 98, 97, 99, 107, 117, 112>>, <<>> }   \* "not a backup"

\* A container packed by someone else who holds the passphrase: an entry
\* of a category this registry does not know, entries of known ones, and
\* among them an entry named by a category id alone, whose destination is
\* the directory of the category.
CraftedTar ==
    BuildTar(ManifestJson([version |-> <<49>>, createdAt |-> 0,
                           hostname |-> HostName,
                           categories |-> <<S_evil, S_brain, S_config>>,
                           fileCount |-> 4, totalBytes |-> 0]),
             << [name |-> PathJoin(<<S_evil, S_x>>), content |-> CONTENT_A],
                [name |-> PathJoin(<<S_brain, S_data_json>>), content |-> CONTENT_A],
                [name |-> S_brain, content |-> <<>>],
                [name |-> PathJoin(<<S_config, S_openclaw_json>>), content |-> CONTENT_B] >>, 0)
CraftedArchive ==
    SealArchive(PASS_A, Fill(SALT_LEN, 9), Fill(IV_LEN, 9), gzipSync(CraftedTar))
\* The same seal around bytes that are no compressed stream.
CraftedJunk ==
    SealArchive(PASS_A, Fill(SALT_LEN, 9), Fill(IV_LEN, 9), <<1, 2, 3>>)

ArchivesOnDisk == {bdir[n].data : n \in DOMAIN bdir}

----------------------------------------------------------------------------
(* Specifications                                                          *)

\* Everything but the backup directory.
InitEngine ==
    /\ now = 0
    /\ files = InitFiles
    /\ dirs = InitDirs
    /\ cr = [c \in {1, 2} |-> CrIdle]
    /\ created = 0
    /\ made = {}
    /\ rs = RsIdle
    /\ restores = 0
    /\ hist = {}
    /\ pr = PrIdle
    /\ edits = 0
    /\ dl = DlInit
    /\ ep = EpIdle
    /\ rng = 0

\* Nothing has been backed up yet: there is no backup directory.
Init ==
    /\ InitEngine
    /\ bdirExists = FALSE
    /\ bdir = <<>>

\* Create and restore of intact and foreign-packed archives, one
\* operation at a time; a restore that returned is run once more with
\* dryRun the other way.
NextEngine ==
    \/ /\ \E p \in Passphrases, en \in EnabledChoices, r \in 1..NRand :
             Quiet /\ created < MaxCreates
             /\ CreateBegin(1, p, en, RandomSalt(r), RandomIv(r))
       /\ UNCHANGED <<dl, ep, rng>>
    \/ CreateWrite(1) /\ UNCHANGED <<dl, ep, rng>>
    \/ /\ \E a \in ArchivesOnDisk \cup {CraftedArchive}, p \in Passphrases :
             /\ Quiet /\ restores < MaxRestores
             /\ LET o == OpenArchive(a, p)
                IN  \E f \in Filters, d \in BOOLEAN : RestoreBegin(o, a, p, f, d)
       /\ UNCHANGED <<dl, ep, rng>>
    \/ /\ \E h \in hist :
             /\ Quiet /\ restores < MaxRestores + 1
             /\ \A g \in hist : g.encrypted = h.encrypted /\ g.pass = h.pass
                                /\ g.filter = h.filter => g.dryRun = h.dryRun
             /\ RestoreBegin(OpenArchive(h.encrypted, h.pass), h.encrypted, h.pass,
                             h.filter, ~h.dryRun)
       /\ UNCHANGED <<dl, ep, rng>>
    \/ RestoreStep /\ UNCHANGED <<dl, ep, rng>>
    \/ /\ \E q \in EditablePaths, c \in Contents : EditFile(q, c)
       /\ UNCHANGED <<dl, ep, rng>>
    \/ Migrate /\ UNCHANGED <<dl, ep, rng>>

SpecEngine == Init /\ [][NextEngine]_vars


\* Restores of whatever file archivePath may name: an archive on disk, a
\* copy of one with a byte changed, a file of another kind, an archive
\* sealed by someone else.
RestoreInputs ==
    ArchivesOnDisk
    \cup {Tamper(a, k) : a \in ArchivesOnDisk, k \in {1, 7, 39, 55, 70, 71}}
    \cup {Tamper(a, Len(a)) : a \in ArchivesOnDisk}
    \cup {Truncate(a, k) : a \in ArchivesOnDisk, k \in TruncatedLengths}
    \cup ForeignFiles \cup {CraftedArchive, CraftedJunk}

NextOpen ==
    \/ /\ \E p \in Passphrases, en \in EnabledChoices, r \in 1..NRand :
             Quiet /\ created < MaxCreates
             /\ CreateBegin(1, p, en, RandomSalt(r), RandomIv(r))
       /\ UNCHANGED <<dl, ep, rng>>
    \/ CreateWrite(1) /\ UNCHANGED <<dl, ep, rng>>
    \/ /\ \E a \in RestoreInputs, p \in Passphrases :
             /\ Quiet /\ restores < MaxRestores
             /\ LET o == OpenArchive(a, p)
                IN  \E f \in {NoFilter}, d \in BOOLEAN : RestoreBegin(o, a, p, f, d)
       /\ UNCHANGED <<dl, ep, rng>>
    \/ RestoreStep /\ UNCHANGED <<dl, ep, rng>>
    \/ Migrate /\ UNCHANGED <<dl, ep, rng>>

SpecOpen == Init /\ [][NextOpen]_vars


\* Time passes.
Tick(d) ==
    /\ now' = now + d
    /\ UNCHANGED <<files, dirs, bdirExists, bdir, cr, created, made, rs, restores, hist, pr, edits>>

\* Someone else removes an archive from the backup directory while
\* pruneBackups runs.
ExternalDelete(n) ==
    /\ n \in ArchivesIn(bdir)
    /\ bdir' = [q \in (DOMAIN bdir) \ {n} |-> bdir[q]]
    /\ PrRunning
    /\ pr' = [pr EXCEPT !.ext = @ + 1, !.alone = FALSE]
    /\ UNCHANGED <<now, files, dirs, bdirExists, cr, created, made, rs, restores, hist, edits>>

MaxPruneCreates == 3
MaxPrunes == 1
MaxExternal == 1
MaxPruneDays == 1
MaxPruneSecs == 2
PruneTicks == {1000, DAY_MS}

\* config.retention
MaxBackupsChoices == {0, 1, 2}
MaxAgeDaysChoices == {1, 2}

\* A file in the backup directory that is no archive.
NotesName == [base |-> "notes", ts |-> 0 - 1, ext |-> ".txt"]

\* The backup directory does not exist yet, or holds a foreign file.
InitPrune ==
    /\ InitEngine
    /\ \/ bdirExists = FALSE /\ bdir = <<>>
       \/ /\ bdirExists = TRUE
          /\ bdir = [n \in {NotesName} |-> [data |-> CONTENT_B, mtime |-> 0]]

\* Backups are made as time passes, then pruned; someone may delete an
\* archive by hand at any moment.  The clock is read at the steps of
\* createBackup and pruneBackups that read it.
NextPrune ==
    \/ /\ \E r \in 1..NRand :
             /\ Quiet /\ pr.pc = "idle" /\ created < MaxPruneCreates
             /\ CreateBegin(1, PASS_A, {S_config}, RandomSalt(r), RandomIv(r))
       /\ UNCHANGED <<dl, ep, rng>>
    \/ CreateWrite(1) /\ UNCHANGED <<dl, ep, rng>>
    \/ /\ \E d \in PruneTicks :
             /\ Quiet /\ pr.pc \in {"idle", "list"}
             /\ (now + d) \div DAY_MS <= MaxPruneDays
             /\ (now + d) % DAY_MS <= MaxPruneSecs * 1000
             /\ Tick(d)
       /\ UNCHANGED <<dl, ep, rng>>
    \/ /\ \E mb \in MaxBackupsChoices, md \in MaxAgeDaysChoices :
             Quiet /\ pr.calls < MaxPrunes /\ PruneCall(mb, md)
       /\ UNCHANGED <<dl, ep, rng>>
    \/ PruneReaddir /\ UNCHANGED <<dl, ep, rng>>
    \/ PruneStat /\ UNCHANGED <<dl, ep, rng>>
    \/ PruneAge /\ UNCHANGED <<dl, ep, rng>>
    \/ PruneRestat /\ UNCHANGED <<dl, ep, rng>>
    \/ PruneCount /\ UNCHANGED <<dl, ep, rng>>
    \/ /\ \E n \in DOMAIN bdir : pr.ext < MaxExternal /\ ExternalDelete(n)
       /\ UNCHANGED <<dl, ep, rng>>

SpecPrune == InitPrune /\ [][NextPrune]_vars

MaxRaceCreates == 2
MaxRaceNow == 1500
RaceTicks == {400, 1000}

\* Two callers make backups into one directory, one after the other or
\* at once; nothing is pruned.
NextCreate ==
    \/ /\ \E c \in {1, 2}, p \in Passphrases, r \in 1..NRand :
             /\ created + Cardinality({k \in DOMAIN cr : cr[k].pc # "idle"}) < MaxRaceCreates
             /\ CreateBegin(c, p, {S_config, S_brain}, RandomSalt(r), RandomIv(r))
       /\ UNCHANGED <<dl, ep, rng>>
    \/ /\ \E c \in {1, 2} : CreateWrite(c)
       /\ UNCHANGED <<dl, ep, rng>>
    \/ /\ \E d \in RaceTicks : now + d <= MaxRaceNow /\ Tick(d)
       /\ UNCHANGED <<dl, ep, rng>>

SpecCreate == Init /\ [][NextCreate]_vars


MaxTokens == 2
MaxRequests == 2
MaxDlExpiries == 1
MaxDlMs == 1
DlTicks == {1, EXPIRY_MS}

\* The user removes an archive from the backup directory.
UserDelete(n) ==
    /\ n \in ArchivesIn(bdir)
    /\ bdir' = MapDelete(bdir, n)
    /\ UNCHANGED <<now, files, dirs, bdirExists, cr, created, made, rs, restores, hist, pr, edits>>

\* A backup is made, links to it are issued and requested as time passes.
NextDownload ==
    \/ /\ Quiet /\ created < MaxCreates
       /\ CreateBegin(1, PASS_A, {S_config}, RandomSalt(1), RandomIv(1))
       /\ UNCHANGED <<dl, ep, rng>>
    \/ CreateWrite(1) /\ UNCHANGED <<dl, ep, rng>>
    \/ /\ \E n \in DOMAIN bdir :
             rng < MaxTokens /\ createDownloadLink(n, EXPIRY_MS)
       /\ UNCHANGED <<engineVars, ep>>
    \/ /\ \E t \in DOMAIN dl.timers : TimerFire(t)
       /\ UNCHANGED <<engineVars, ep, rng>>
    \/ /\ \E r \in 1..MaxRequests, t \in 1..MaxTokens : DownloadRequest(r, t)
       /\ UNCHANGED <<engineVars, ep, rng>>
    \/ /\ \E r \in 1..MaxRequests : DownloadStat(r)
       /\ UNCHANGED <<engineVars, ep, rng>>
    \/ /\ \E r \in 1..MaxRequests : DownloadEnd(r)
       /\ UNCHANGED <<engineVars, ep, rng>>
    \/ /\ \E r \in 1..MaxRequests : DownloadError(r)
       /\ UNCHANGED <<engineVars, ep, rng>>
    \/ /\ \E d \in DlTicks :
             /\ (now + d) \div EXPIRY_MS <= MaxDlExpiries
             /\ (now + d) % EXPIRY_MS <= MaxDlMs
             /\ Tick(d)
       /\ UNCHANGED <<dl, ep, rng>>
    \/ /\ \E n \in DOMAIN bdir : dl.issued # <<>> /\ UserDelete(n)
       /\ UNCHANGED <<dl, ep, rng>>

SpecDownload == Init /\ [][NextDownload]_vars

MaxAttempts == 2

\* Backups whose write others can see midway and that may fail in it; the
\* archives on disk are listed by restore previews.
NextCrash ==
    \/ /\ \E p \in Passphrases, en \in EnabledChoices :
             /\ Quiet /\ rng < 2 * MaxAttempts
             /\ CreateBegin(1, p, en, RandomSalt(rng + 1), RandomIv(rng + 2))
       /\ rng' = rng + 2
       /\ UNCHANGED <<dl, ep>>
    \/ /\ cr[1].pc = "write"
       /\ \E k \in {0, Len(MAGIC), HEADER_LEN, HEADER_LEN + TAG_LEN, Len(cr[1].output) - 1} :
             WriteStart(1, k)
       /\ UNCHANGED <<dl, ep, rng>>
    \/ WriteFinish(1) /\ UNCHANGED <<dl, ep, rng>>
    \/ WriteCrash(1) /\ UNCHANGED <<dl, ep, rng>>
    \/ /\ \E a \in ArchivesOnDisk, p \in Passphrases :
             /\ rs.pc # "scan" /\ restores < MaxRestores
             /\ RestoreBegin(OpenArchive(a, p), a, p, NoFilter, TRUE)
       /\ UNCHANGED <<dl, ep, rng>>
    \/ RestoreStep /\ UNCHANGED <<dl, ep, rng>>

SpecCrash == Init /\ [][NextCrash]_vars

MaxEntryCalls == 2

PASS_7 == <<49, 50, 51, 52, 53, 54, 55>>               \* "1234567"
PASS_8 == <<49, 50, 51, 52, 53, 54, 55, 56>>           \* "12345678"
PASS_PADDED == <<32, 49, 50, 51, 52, 53, 54, 55, 32>>  \* " 1234567 "
PASS_WORDS == <<49, 50, 51, 32, 32, 52, 53, 54, 55>>   \* "123  4567"
RawPassphrases == {PASS_A, PASS_7, PASS_8, PASS_PADDED, PASS_WORDS, <<>>}

\* The entry points are called one after the other; someone may delete
\* an archive while pruneBackups runs.
NextEntry ==
    \/ \E point \in EntryPoints, raw \in RawPassphrases :
          /\ ep.calls < MaxEntryCalls
          /\ EntryCall(point, raw, {S_config}, RandomSalt(rng + 1), RandomIv(rng + 2))
    \/ EntryCreated
    \/ \E mb \in {0, 2} : EntryPrune(mb, 1)
    \/ /\ ep.pc = "prune"
       /\ PruneReaddir \/ PruneStat \/ PruneAge \/ PruneRestat \/ PruneCount
       /\ UNCHANGED <<dl, ep, rng>>
    \/ EntryLink
    \/ EntryPruneFailed
    \/ /\ \E n \in DOMAIN bdir : pr.ext < MaxExternal /\ ExternalDelete(n)
       /\ UNCHANGED <<dl, ep, rng>>

SpecEntry == Init /\ [][NextEntry]_vars

----------------------------------------------------------------------------
(* Claims about create and restore                                         *)

\* The first path segment of an entry name: what precedes the first "/".
FirstSegment(name) ==
    LET cut == {i \in 1..Len(name) : name[i] = SLASH}
    IN  IF cut = {} THEN name
        ELSE SubSeq(name, 1, (CHOOSE i \in cut : \A j \in cut : i <= j) - 1)

\* The last restoreBackup call returned, was a real unfiltered restore
\* with the passphrase of the createBackup call m, of the archive m wrote.
RestoredFrom(m) ==
    /\ rs.pc = "done" /\ ~rs.dryRun /\ ~rs.filter.given
    /\ rs.encrypted = m.data /\ rs.pass = m.pass

\* C1: after an unfiltered restore of an archive with the passphrase it
\* was created with, every file createBackup read has a destination file
\* (the one restoreBackup wrote its entry to) that holds the bytes read at
\* backup time.
C1_RoundTrip ==
    \A m \in made :
        RestoredFrom(m) =>
            /\ Len(rs.handled) = Len(m.read)
            /\ \A i \in 1..Len(m.read) :
                  /\ rs.handled[i].out \in DOMAIN files
                  /\ files[rs.handled[i].out] = m.read[i].content

\* The same for an installation with a single workspace root, where it
\* holds (not a claim: it shows what makes C1 fail).
SingleRootRoundTrip ==
    \A m \in made :
        (RestoredFrom(m)
         /\ \A i, j \in 1..Len(m.read) :
               m.read[i].name = m.read[j].name => i = j) =>
            /\ Len(rs.handled) = Len(m.read)
            /\ \A i \in 1..Len(m.read) :
                  /\ rs.handled[i].out \in DOMAIN files
                  /\ files[rs.handled[i].out] = m.read[i].content

\* What the claim C5 says an entry must satisfy to be written or counted.
ClaimedSelected(name, filter) ==
    /\ name # MANIFEST_NAME
    /\ FirstSegment(name) \in CategoryIds
    /\ (~filter.given \/ FirstSegment(name) \in filter.ids)

\* C5: throughout the scan and at its return, the entries written (or
\* counted in a dry-run) are exactly the scanned entries that are not the
\* manifest, whose first segment is a registry id and which the filter,
\* if given, contains; restoredCategories is the set of their first
\* segments (so within ["config"] under that filter); fileCount counts
\* them; outside a dry-run each was written to its destination.
C5_SelectiveRestore ==
    rs.pc \in {"scan", "done"} =>
        LET want == SelectSeq(rs.scanned, LAMBDA n : ClaimedSelected(n, rs.filter))
            writes == SelectSeq(rs.ops, LAMBDA o : o.op = "writeFile")
        IN  /\ [i \in 1..Len(rs.handled) |-> rs.handled[i].name] = want
            /\ {rs.cats[i] : i \in 1..Len(rs.cats)}
                 = {FirstSegment(want[i]) : i \in 1..Len(want)}
            /\ Len(rs.cats) = Cardinality({rs.cats[i] : i \in 1..Len(rs.cats)})
            /\ rs.fileCount = Len(want)
            /\ (rs.filter.given => \A i \in 1..Len(rs.cats) : rs.cats[i] \in rs.filter.ids)
            /\ (~rs.dryRun =>
                  [i \in 1..Len(writes) |-> writes[i].path]
                    = [i \in 1..Len(rs.handled) |-> rs.handled[i].out])

\* A filtered restore returned after skipping an entry of a category the
\* registry does not know, and processed entries after it.
C5_Witness ==
    /\ rs.pc = "done" /\ rs.filter.given
    /\ \E i \in 1..Len(rs.scanned) :
          /\ FirstSegment(rs.scanned[i]) = S_evil
          /\ \E j \in (i + 1)..Len(rs.scanned) :
                \E k \in 1..Len(rs.handled) : rs.handled[k].name = rs.scanned[j]

SameCall(g, h) ==
    g.encrypted = h.encrypted /\ g.pass = h.pass /\ g.filter = h.filter

\* C6: two returned restores of one archive with one passphrase and one
\* filter report the same fileCount and restoredCategories whatever their
\* dryRun; and a dry-run performs no mkdir and no write: the data tree is
\* as it was when the call began.
C6_DryRun ==
    /\ \A g, h \in hist :
          SameCall(g, h) => g.fileCount = h.fileCount /\ g.cats = h.cats
    /\ (rs.pc \in {"scan", "done"} /\ rs.dryRun) =>
          rs.ops = <<>> /\ files = rs.files0 /\ dirs = rs.dirs0

\* A dry-run and a real restore of the same call both returned, with
\* files counted, and the real one changed the tree.
C6_Witness ==
    /\ \E g, h \in hist :
          SameCall(g, h) /\ g.dryRun /\ ~h.dryRun /\ g.fileCount > 0
    /\ rs.pc = "done" /\ ~rs.dryRun /\ files # rs.files0

----------------------------------------------------------------------------
(* Claims about opening an archive                                         *)

\* The offset of the ciphertext in an archive.
HEADER_END == Len(MAGIC) + SALT_LEN + IV_LEN + TAG_LEN

\* x is the archive m.data with the magic, salt and iv as written, and the
\* authentication tag or the ciphertext changed in at least one byte.
TagOrCiphertextChanged(x, m) ==
    /\ Len(x) = Len(m.data)
    /\ \A k \in 1..(HEADER_END - TAG_LEN) : x[k] = m.data[k]
    /\ \E k \in (HEADER_END - TAG_LEN + 1)..Len(x) : x[k] # m.data[k]

\* Sealed by a holder of the passphrase: nothing the claim C2 speaks of.
SealedArchives == {m.data : m \in made} \cup {CraftedArchive, CraftedJunk}

\* (x, pass) is what C2 speaks of: an archive some createBackup call
\* wrote, given with another passphrase, or with a byte of its tag or
\* ciphertext changed.
BadOpen(x, pass) ==
    \E m \in made :
        \/ x = m.data /\ pass # m.pass
        \/ pass = m.pass /\ TagOrCiphertextChanged(x, m) /\ x \notin SealedArchives

\* C2: restoreBackup of an archive createBackup wrote fails with the one
\* decryption error, and returns no result, when the passphrase is not
\* the one of its creation or a byte of the tag or ciphertext is changed.
C2_DecryptionFails ==
    /\ (rs.pc # "idle" /\ BadOpen(rs.encrypted, rs.pass)) =>
          rs.pc = "failed" /\ rs.err = "DecryptionFailed"
    /\ \A h \in hist : ~BadOpen(h.encrypted, h.pass)

C2_Witness ==
    /\ rs.pc = "failed"
    /\ \E m \in made :
          /\ rs.pass = m.pass
          /\ TagOrCiphertextChanged(rs.encrypted, m)
          /\ rs.encrypted[Len(rs.encrypted)] # m.data[Len(m.data)]

\* C3: a file whose first 6 bytes are not the magic constant fails with
\* the invalid-archive error and deriveKey is not called.
C3_MagicFirst ==
    (rs.pc # "idle" /\ SubArr(rs.encrypted, 0, 6) # MAGIC) =>
        rs.pc = "failed" /\ rs.err = "InvalidArchive" /\ rs.derived = 0

C3_Witness ==
    /\ rs.pc = "failed" /\ rs.err = "InvalidArchive"
    /\ Len(rs.encrypted) > HEADER_END

\* The tag stored in x is the tag of its ciphertext under the key of
\* pass and the stored salt, and the plaintext decompresses.
Authentic(x, pass) ==
    LET salt == SubArr(x, Len(MAGIC), Len(MAGIC) + SALT_LEN)
        iv   == SubArr(x, Len(MAGIC) + SALT_LEN, HEADER_END - TAG_LEN)
        tag  == SubArr(x, HEADER_END - TAG_LEN, HEADER_END)
        ct   == SubArr(x, HEADER_END, Len(x))
        key  == deriveKey(pass, salt)
    IN  /\ SubArr(x, 0, Len(MAGIC)) = MAGIC
        /\ AuthTag(key, iv, ct) = tag
        /\ GunzipOk(Decrypt(key, iv, ct))

\* C4: a restore that failed at the magic check, at decryption or at
\* decompression made no mkdir and no write and left the data tree as it
\* was; a restore has made a mkdir or a write only after the archive was
\* authenticated and decompressed.
C4_NoWriteBeforeOpen ==
    /\ (rs.pc = "failed"
        /\ rs.err \in {"InvalidArchive", "DecryptionFailed", "CorruptArchive"}) =>
          rs.ops = <<>> /\ files = rs.files0 /\ dirs = rs.dirs0
    /\ (rs.pc # "idle" /\ (rs.ops # <<>> \/ files # rs.files0 \/ dirs # rs.dirs0)) =>
          rs.opened /\ Authentic(rs.encrypted, rs.pass)

\* A restore failed at decompression, on a fresh system.
C4_Witness ==
    rs.pc = "failed" /\ rs.err = "CorruptArchive" /\ files = <<>>

----------------------------------------------------------------------------
(* Claims about pruning and archive names                                  *)

\* pruneBackups has returned and nobody else touched the directory
\* between its call and its return.
PrunedAlone == pr.pc = "done" /\ pr.alone

\* The archives in the directory at the call of pruneBackups that were
\* older than maxAgeDays at the time t.
AgedAt(t) ==
    {n \in ArchivesIn(pr.dir0) : t - pr.dir0[n].mtime > pr.maxAgeDays * DAY_MS}

\* C7: when pruneBackups returns, undisturbed, at most maxBackups
\* archives are left; every archive the count phase removed is no newer
\* than any archive left; and with maxBackups = 1 and three archives,
\* none of them past the age limit, exactly the newest is left.
C7_CountLimit ==
    PrunedAlone =>
        LET left == ArchivesIn(pr.after)
        IN  /\ Cardinality(left) <= pr.maxBackups
            /\ \A b \in pr.byCount, n \in left : b.createdAt <= pr.after[n].mtime
            /\ (pr.maxBackups = 1 /\ Cardinality(ArchivesIn(pr.dir0)) = 3
                /\ AgedAt(pr.now) = {}) =>
                  /\ Cardinality(left) = 1
                  /\ \A n \in left, q \in ArchivesIn(pr.dir0) :
                        pr.dir0[q].mtime <= pr.dir0[n].mtime

C7_Witness ==
    /\ PrunedAlone /\ pr.maxBackups = 1
    /\ Cardinality(ArchivesIn(pr.dir0)) = 3
    /\ Cardinality(pr.byCount) = 2
    /\ Cardinality(ArchivesIn(pr.after)) = 1

\* C8: when pruneBackups returns, undisturbed, every archive that was
\* more than maxAgeDays days old at the call is gone from the directory
\* and named in the returned list, whatever the number of archives.
C8_AgeLimit ==
    PrunedAlone =>
        \A n \in AgedAt(pr.callTime) :
            /\ n \notin DOMAIN pr.after
            /\ \E i \in 1..Len(pr.pruned) : pr.pruned[i] = n

\* An archive past the age limit was pruned although the directory held
\* no more than maxBackups archives, and a younger one was left.
C8_Witness ==
    /\ PrunedAlone
    /\ AgedAt(pr.callTime) # {}
    /\ Cardinality(ArchivesIn(pr.dir0)) <= pr.maxBackups
    /\ ArchivesIn(pr.after) # {}

\* The archives of pr.after that the retention policy does not allow:
\* those past the age limit, and the oldest beyond maxBackups.
PolicyViolators ==
    LET left == ArchivesIn(pr.after)
    IN  {n \in left :
            \/ pr.now - pr.after[n].mtime > pr.maxAgeDays * DAY_MS
            \/ Cardinality({q \in left : pr.after[q].mtime > pr.after[n].mtime})
                 >= pr.maxBackups}

\* C9: pruneBackups does not fail when someone else removes an archive
\* between the listing and the deletion, and when it ends no archive is
\* left that the policy wants deleted.
C9_ToleratesDisappearance ==
    /\ pr.pc # "failed"
    /\ pr.pc = "done" => PolicyViolators = {}

\* C10: the directory holds as many archives as createBackup calls have
\* succeeded: no call wrote over the archive of another.
C10_FreshName ==
    Cardinality(ArchivesIn(bdir)) = created

----------------------------------------------------------------------------
(* Claims about writes in progress                                         *)

\* The whole outputs of the createBackup calls that returned or are
\* writing.
WholeOutputs ==
    {m.data : m \in made} \cup {cr[c].output : c \in {c \in DOMAIN cr : cr[c].pc # "idle"}}

\* C11: every .ocbak file in the backup directory is, at every moment,
\* the whole output of a createBackup call, never a part of one.
C11_NoPartialArchive ==
    \A n \in ArchivesIn(bdir) : bdir[n].data \in WholeOutputs

----------------------------------------------------------------------------
(* Claims about download links                                             *)

\* The requests for token t that were answered 200.
Served(t) ==
    {r \in DOMAIN dl.reqs : dl.reqs[r].token = t /\ dl.reqs[r].status = 200}

\* C12: of the requests for one token, at most one is answered 200.
C12_OneTime ==
    \A t \in DOMAIN dl.issued : Cardinality(Served(t)) <= 1

\* C13: a request answered 200 arrived no later than the expiresAt of its
\* token; a token whose timer has fired or whose download has ended is in
\* neither activeTokens nor expiryTimers; and a request that arrives for
\* a token not in the table is answered 404.
C13_Expiry ==
    /\ \A r \in DOMAIN dl.reqs :
          dl.reqs[r].status = 200 =>
              /\ dl.reqs[r].token \in DOMAIN dl.issued
              /\ dl.reqs[r].at <= dl.issued[dl.reqs[r].token]
    /\ \A t \in dl.fired \cup dl.completed :
          t \notin DOMAIN dl.tokens /\ t \notin DOMAIN dl.timers
    /\ \A r \in DOMAIN dl.reqs :
          /\ ~dl.reqs[r].known => dl.reqs[r].status = 404
          /\ dl.reqs[r].pc = "answered" => dl.reqs[r].status \in {200, 404, 410}

\* One token was downloaded to the end, the timer of another fired and a
\* request for it came afterwards.
C13_Witness ==
    \E r1, r2 \in DOMAIN dl.reqs :
        /\ dl.reqs[r1].status = 200 /\ dl.reqs[r1].token \in dl.completed
        /\ dl.reqs[r2].token \in dl.fired /\ dl.reqs[r2].status = 404
        /\ dl.reqs[r2].at > dl.issued[dl.reqs[r2].token]

----------------------------------------------------------------------------
\* Claims about the layout of the archive file

\* C14: the file createBackup writes is the magic, the 32-byte salt, the
\* 16-byte nonce, the 16-byte tag and the ciphertext in this order, 70
\* bytes and the ciphertext long, and sizeBytes is that length; the
\* reads of restoreBackup at offsets 6, 38, 54 and 70 give back the four
\* values createBackup wrote.
C14_HeaderLayout ==
    /\ \A m \in made :
          /\ SubArr(m.data, 0, 6) = MAGIC
          /\ SubArr(m.data, 6, 38) = m.sealed.salt
          /\ SubArr(m.data, 38, 54) = m.sealed.iv
          /\ SubArr(m.data, 54, 70) = m.sealed.authTag
          /\ SubArr(m.data, 70, Len(m.data)) = m.sealed.encrypted
          /\ Len(m.data) = 70 + Len(m.sealed.encrypted)
          /\ m.sizeBytes = Len(m.data)
    /\ rs.pc # "idle" =>
          /\ SubArr(rs.encrypted, 0, 6) = MAGIC =>
                /\ rs.hdr.salt = SubArr(rs.encrypted, 6, 38)
                /\ rs.hdr.iv = SubArr(rs.encrypted, 38, 54)
                /\ rs.hdr.authTag = SubArr(rs.encrypted, 54, 70)
                /\ rs.hdr.encrypted = SubArr(rs.encrypted, 70, Len(rs.encrypted))
          /\ \A m \in made : rs.encrypted = m.data => rs.hdr = m.sealed

\* A restore has read the header of an archive createBackup wrote.
C14_Witness ==
    /\ rs.pc # "idle" /\ rs.err = "none"
    /\ \E m \in made : rs.encrypted = m.data /\ Len(m.sealed.encrypted) > 0

----------------------------------------------------------------------------
\* Claims about the categories of createBackup

\* The entries of the list read whose name lies under the category id.
EntriesOf(read, id) == SelectSeq(read, LAMBDA e : FirstSegment(e.name) = id)

\* No root of the category cat exists in the data tree.
RootMissing(cat) ==
    LET ps == CatPaths(cat, OcDir, Workspace)
    IN  \A i \in 1..Len(ps) : ~existsSync(ps[i])

\* The ids of the sequence ids are those of the set enabled, each once.
ListsEach(ids, enabled) ==
    /\ {ids[i] : i \in 1..Len(ids)} = enabled \cap CategoryIds
    /\ Len(ids) = Cardinality(enabled \cap CategoryIds)

\* C15: a createBackup call whose enabled categories include one with no
\* root on disk reaches its write and returns; that category has no
\* entry in the archive, its id is in manifest.categories all the same,
\* and each other category has the entries it has when collected alone.
C15_MissingRoot ==
    /\ \A c \in DOMAIN cr : cr[c].pc = "write" =>
          /\ ListsEach(cr[c].manifest.categories, cr[c].enabled)
          /\ \A i \in 1..Len(CATEGORIES) :
                LET cat == CATEGORIES[i]
                IN  cat.id \in cr[c].enabled =>
                       /\ RootMissing(cat) => EntriesOf(cr[c].read, cat.id) = <<>>
                       /\ EntriesOf(cr[c].read, cat.id) =
                             ReadAll(collectFiles(CatPaths(cat, OcDir, Workspace),
                                                  cat.id))
          /\ cr[c].manifest.fileCount = Len(cr[c].read)
    /\ \A m \in made :
          /\ ListsEach(m.manifest.categories, m.enabled)
          /\ \A e \in {m.read[i] : i \in 1..Len(m.read)} :
                FirstSegment(e.name) \in m.enabled
    /\ \A c \in DOMAIN cr :
          (cr[c].pc = "write" /\ bdirExists) => ENABLED CreateWrite(c)

\* createBackup returned with every category enabled on the system of
\* Init, where most category roots do not exist and three do.
C15_Witness ==
    /\ edits = 0
    /\ \E m \in made :
          /\ m.enabled = CategoryIds
          /\ \E i \in 1..Len(CATEGORIES) : RootMissing(CATEGORIES[i])
          /\ Len(m.read) = 3
          /\ Len(m.manifest.categories) = Len(CATEGORIES)

----------------------------------------------------------------------------
\* Claims about a cut header

\* C16: a file that starts with the magic constant and is shorter than
\* the 70-byte header fails with the invalid-archive error, and
\* deriveKey is not called.
C16_TruncatedHeader ==
    (rs.pc # "idle" /\ SubArr(rs.encrypted, 0, 6) = MAGIC /\ Len(rs.encrypted) < 70) =>
        rs.pc = "failed" /\ rs.err = "InvalidArchive" /\ rs.derived = 0

----------------------------------------------------------------------------
\* Claims about a destination that cannot be written

\* The names of the entries of a container from pos on, as the scan
\* meets them.
RECURSIVE EntryNames(_, _)
EntryNames(tar, pos) ==
    IF ScanEnds(tar, pos) THEN <<>>
    ELSE <<EntryAt(tar, pos).name>> \o EntryNames(tar, EntryAt(tar, pos).next)

\* The destination of the entry name can be created and written in the
\* tree as it is.
DestinationUsable(name, ws) ==
    LET catId == FirstSegment(name)
        out   == OutPath(FindCategory(catId).cat, catId, name, ws)
    IN  MkdirOk(dirname(out)) /\ WriteOk(out)

\* C17: when a real restore has ended, by a return or by the failure of
\* a destination, every selected entry of the archive whose destination
\* can be created and written was written.
C17_EntryFailureConfined ==
    (/\ rs.pc \in {"done", "failed"} /\ rs.opened /\ ~rs.dryRun
     /\ rs.err \in {"none", "FsError"}) =>
        LET names == EntryNames(OpenArchive(rs.encrypted, rs.pass).tar, 0)
        IN  \A i \in 1..Len(names) :
               (ClaimedSelected(names[i], rs.filter)
                /\ DestinationUsable(names[i], rs.ws)) =>
                   \E k \in 1..Len(rs.handled) : rs.handled[k].name = names[i]

----------------------------------------------------------------------------
\* Claims about the listing

\* listBackups has just returned to pruneBackups, and nobody else has
\* touched the directory since the call.
ListedAlone == pr.pc = "age" /\ pr.idx = 1 /\ pr.pruned = <<>> /\ pr.alone

\* C18: the list listBackups returns has one record for each name of
\* the directory that ends with .ocbak, with its size and modification
\* time, and none for another name; the records stand by modification
\* time downwards; for a directory that does not exist the list is empty
\* and the call does not fail.
C18_Listing ==
    /\ ListedAlone =>
          LET bs    == pr.backups
              names == {n \in DOMAIN bdir : n.ext = ".ocbak"}
          IN  /\ {bs[i].filename : i \in 1..Len(bs)} = names
              /\ Len(bs) = Cardinality(names)
              /\ \A i \in 1..Len(bs) :
                    /\ bs[i].createdAt = bdir[bs[i].filename].mtime
                    /\ bs[i].sizeBytes = Len(bdir[bs[i].filename].data)
              /\ \A i, j \in 1..Len(bs) :
                    i < j => bs[i].createdAt >= bs[j].createdAt
              /\ ~bdirExists => bs = <<>>
    /\ (pr.pc = "failed" /\ pr.alone) => FALSE

\* A directory with a file that is no archive and two archives of
\* different times has been listed.
C18_Witness ==
    /\ ListedAlone
    /\ NotesName \in DOMAIN bdir
    /\ Len(pr.backups) = 2
    /\ pr.backups[1].createdAt > pr.backups[2].createdAt

----------------------------------------------------------------------------
\* Claims about the entry points

\* Every createBackup call, running or returned, has a passphrase of at
\* least 8 characters.
LongPassphrases ==
    /\ \A c \in DOMAIN cr : cr[c].pc # "idle" => Len(cr[c].pass) >= 8
    /\ \A m \in made : Len(m.pass) >= 8

\* A step in which an entry point is called and rejects the passphrase
\* leaves the backup directory, the count of archives made, the prune
\* state and the token table as they were and starts no createBackup.
RejectionIsInert ==
    (ep'.calls = ep.calls + 1 /\ ep'.pc = "rejected") =>
        /\ UNCHANGED <<bdirExists, bdir, created, made, pr, dl, rng>>
        /\ \A c \in DOMAIN cr : cr'[c].pc = "idle"

\* A step in which an entry point is called with a passphrase of fewer
\* than 8 characters is a rejection.
ShortIsRejected ==
    (ep'.calls = ep.calls + 1 /\ ep'.pc # "rejected") =>
        \A c \in DOMAIN cr : cr'[c].pc # "idle" => Len(cr'[c].pass) >= 8

\* C19: the tool, the CLI command and /ark backup never call
\* createBackup with a passphrase of fewer than 8 characters, and a
\* rejected call creates no archive, prunes none and issues no token.
C19_PassphraseMinimum ==
    /\ []LongPassphrases
    /\ [][RejectionIsInert /\ ShortIsRejected]_vars

\* An entry point has rejected a passphrase while an archive of an
\* earlier call and its token exist.
C19_Witness ==
    /\ ep.pc = "rejected" /\ ep.calls = 2
    /\ DOMAIN bdir # {}
    /\ DOMAIN dl.tokens # {}

----------------------------------------------------------------------------
\* Claims about the salt and the nonce

\* The salt and the nonce an archive file carries in its header.
SaltOf(data) == SubArr(data, 6, 38)
NonceOf(data) == SubArr(data, 38, 54)

\* C20: the salt and the nonce in the header of an archive are the two
\* values its createBackup call drew, whatever its passphrase and its
\* content, and no two archives createBackup produced carry the same
\* salt or the same nonce.
C20_FreshSaltNonce ==
    /\ \A c \in DOMAIN cr : cr[c].pc # "idle" =>
          /\ SaltOf(cr[c].output) = RandomSalt(rng - 1)
          /\ NonceOf(cr[c].output) = RandomIv(rng)
    /\ \A m1, m2 \in made :
          m1 # m2 => /\ SaltOf(m1.data) # SaltOf(m2.data)
                     /\ NonceOf(m1.data) # NonceOf(m2.data)
    /\ \A m \in made : \A c \in DOMAIN cr : cr[c].pc # "idle" =>
          /\ SaltOf(m.data) # SaltOf(cr[c].output)
          /\ NonceOf(m.data) # NonceOf(cr[c].output)

\* Two archives of one passphrase and one content have been produced.
C20_Witness ==
    \E m1, m2 \in made :
        /\ m1 # m2
        /\ m1.pass = m2.pass
        /\ m1.read = m2.read /\ m1.enabled = m2.enabled

----------------------------------------------------------------------------
\* Claims about entry names

\* The name of an entry as tarHeader writes it into the name field.
PackedName(name) == StrSlice(name, 0, NAME_MAX)

\* C21: in one createBackup, two different collected source files never
\* get the same entry name in the container.
C21_DistinctNames ==
    \A c \in DOMAIN cr : cr[c].pc = "write" =>
        \A i, j \in 1..Len(cr[c].read) :
            cr[c].read[i].abs # cr[c].read[j].abs =>
                PackedName(cr[c].read[i].name) # PackedName(cr[c].read[j].name)

----------------------------------------------------------------------------
(* Containers of any bytes: what restoreBackup scans after it has          *)
(* decrypted and decompressed an archive sealed with the passphrase.       *)

MaxScans == 2
MaxScanSteps == 6

\* An entry with the 12 bytes of its size field replaced.
PatchSize(entry, field) == BufWrite(entry, field, 124)

ScanManifestJson(n) ==
    ManifestJson([version |-> <<49>>, createdAt |-> 0, hostname |-> HostName,
                  categories |-> <<S_brain, S_config>>,
                  fileCount |-> n, totalBytes |-> 0])

N_brain_data == Join(<<S_brain, S_data_json>>, SLASH)             \* "brain/data.json"
N_brain_a_b == Join(<<S_brain, <<97>>, <<98>>>>, SLASH)            \* "brain/a/b"
N_brain_up == Join(<<S_brain, <<46, 46>>, <<46, 46>>, S_x>>, SLASH) \* "brain/../../x"
N_brain_abs == Join(<<S_brain, <<>>, S_x>>, SLASH)                 \* "brain//x"
N_config_other == Join(<<S_config, S_x>>, SLASH)                   \* "config/x"

\* Regular entries: a file of 6 bytes, an empty one, one of exactly one
\* block, one two directories down, and one of the config category under
\* another name.
ScanCodecEntries ==
    << [name |-> N_brain_data, content |-> CONTENT_B],
       [name |-> Join(<<S_brain, S_x>>, SLASH), content |-> <<>>],
       [name |-> Join(<<S_config, S_openclaw_json>>, SLASH),
        content |-> Fill(BLOCK, 65)],
       [name |-> N_brain_a_b, content |-> CONTENT_A],
       [name |-> N_config_other, content |-> CONTENT_A] >>
ScanCodec == BuildTar(ScanManifestJson(5), ScanCodecEntries, 0)

\* One entry after the manifest, with the size field as given.
ScanPatched(field) ==
    PackEntry(MANIFEST_NAME, ScanManifestJson(1), 0)
    \o PatchSize(PackEntry(N_brain_data, CONTENT_B, 0), field)
    \o Zeros(END_MARKER_LEN)

\* "00000010000": 4096 bytes declared where 1536 follow.
ScanOversize == ScanPatched(<<48, 48, 48, 48, 48, 48, 49, 48, 48, 48, 48, 0>>)
\* "9zz": no octal digit.
ScanBadOctal == ScanPatched(<<57, 122, 122, 0, 0, 0, 0, 0, 0, 0, 0, 0>>)
\* "-1000": minus one block.
ScanMinusBlock == ScanPatched(<<45, 49, 48, 48, 48, 0, 0, 0, 0, 0, 0, 0>>)
\* "-5"
ScanMinusFive == ScanPatched(<<45, 53, 0, 0, 0, 0, 0, 0, 0, 0, 0, 0>>)

\* Names that climb out of the category root or start anew at the root
\* of the file system.
ScanTraversalEntries ==
    << [name |-> N_brain_up, content |-> CONTENT_A],
       [name |-> N_brain_abs, content |-> CONTENT_B] >>
ScanTraversal == BuildTar(ScanManifestJson(2), ScanTraversalEntries, 0)

\* The manifest after a file, and no manifest at all.
ScanManifestLate ==
    PackEntry(N_brain_data, CONTENT_A, 0)
    \o PackEntry(MANIFEST_NAME, ScanManifestJson(1), 0)
    \o Zeros(END_MARKER_LEN)
ScanNoManifest ==
    PackEntry(N_brain_data, CONTENT_A, 0) \o Zeros(END_MARKER_LEN)

ScanContainers ==
    {ScanCodec, ScanOversize, ScanBadOctal, ScanMinusBlock, ScanMinusFive,
     ScanTraversal, ScanManifestLate, ScanNoManifest}

\* The archive a holder of the passphrase makes of a container.
SealedBy(tar) ==
    SealArchive(PASS_A, Fill(SALT_LEN, 9), Fill(IV_LEN, 9), gzipSync(tar))
ScanInputs == {SealedBy(t) : t \in ScanContainers}

\* Restores of such archives, real and as dry-run, on the installed
\* system and on a fresh one.
NextScan ==
    \/ /\ \E a \in ScanInputs, d \in BOOLEAN :
             /\ rs.pc # "scan" /\ restores < MaxScans
             /\ RestoreBegin(OpenArchive(a, PASS_A), a, PASS_A, NoFilter, d)
       /\ UNCHANGED <<dl, ep, rng>>
    \/ /\ rs.pc = "scan"
       /\ IF ScanEnds(rs.tar, rs.pos) THEN TRUE ELSE Len(rs.seen) < MaxScanSteps
       /\ RestoreStep
       /\ UNCHANGED <<dl, ep, rng>>
    \/ Migrate /\ UNCHANGED <<dl, ep, rng>>

SpecScan == Init /\ [][NextScan]_vars

----------------------------------------------------------------------------
\* Claims about the block scan

\* The size field of the metadata block at pos, as text.
SizeField(tar, pos) ==
    Trim(StripNul(SubArr(SubArr(tar, pos, pos + BLOCK), 124, 136)))

IsOctal(str) == str # <<>> /\ \A k \in 1..Len(str) : str[k] \in 48..55

\* The block at pos declares more bytes than follow it, or its size
\* field is no octal number.
MalformedSize(tar, pos) ==
    \/ ~IsOctal(SizeField(tar, pos))
    \/ DigitsValue(SizeField(tar, pos), 8, 0) > Len(tar) - (pos + BLOCK)

\* C22: the iteration of the scan that meets a block with a malformed
\* size ends the restore with the corrupt-archive error and writes
\* nothing.
C22_MalformedSizeFails ==
    [][(rs.pc = "scan" /\ ~ScanEnds(rs.tar, rs.pos)
        /\ MalformedSize(rs.tar, rs.pos)) =>
          /\ rs'.pc = "failed" /\ rs'.err = "CorruptArchive"
          /\ files' = files /\ dirs' = dirs]_vars

----------------------------------------------------------------------------
\* Claims about destinations

\* The segments of an entry name after the category segment.
Remainder(name) == Tail(Split(name, SLASH))

\* The remainder is a plain relative path: no empty segment, no "." and
\* no "..".
PlainRemainder(name) ==
    \A k \in 1..Len(Remainder(name)) :
        Remainder(name)[k] \notin {<<>>, <<46>>, <<46, 46>>}

\* The path ends in a dot followed by letters only.
EndsInExtension(path) ==
    /\ path # <<>>
    /\ LET seg == path[Len(path)]
       IN  \E n \in 1..(Len(seg) - 1) :
              /\ seg[Len(seg) - n] = 46
              /\ \A k \in (Len(seg) - n + 1)..Len(seg) :
                    seg[k] \in (65..90) \cup (97..122)

\* The first root of the category of an entry name, for the workspace ws.
FirstRoot(name, ws) == CatPaths(FindCategory(FirstSegment(name)).cat, OcDir, ws)[1]

\* The destination the claim C23 gives an entry name.
ClaimedDestination(name, ws) ==
    IF Remainder(name) = <<>> \/ EndsInExtension(FirstRoot(name, ws))
    THEN FirstRoot(name, ws)
    ELSE FirstRoot(name, ws) \o Remainder(name)

\* C23: every entry restoreBackup has written, or logged in a dry-run,
\* went to the first root of its category when nothing follows the
\* category segment or that root ends in an extension, and else to that
\* root joined with what follows; config/openclaw.json goes to the config
\* file and brain/a/b to a/b under the brain root.
C23_Destination ==
    rs.pc \in {"scan", "done", "failed"} =>
        \A k \in 1..Len(rs.handled) :
            LET h == rs.handled[k]
            IN  /\ PlainRemainder(h.name) =>
                      /\ h.out = ClaimedDestination(h.name, rs.ws)
                      /\ ~rs.dryRun => h.out \in DOMAIN files
                /\ h.name = Join(<<S_config, S_openclaw_json>>, SLASH) =>
                      h.out = OcDir \o <<S_openclaw_json>>
                /\ h.name = N_brain_a_b =>
                      h.out = OcDir \o <<S_brain, <<97>>, <<98>>>>

\* A real restore has written an entry under a directory root, two
\* entries of the config category, and returned.
C23_Witness ==
    /\ rs.pc = "done" /\ ~rs.dryRun
    /\ \E k \in 1..Len(rs.handled) : rs.handled[k].name = N_brain_a_b
    /\ \E k \in 1..Len(rs.handled) : rs.handled[k].name = N_config_other
    /\ OcDir \o <<S_brain, <<97>>, <<98>>>> \in DOMAIN files
    /\ files[OcDir \o <<S_openclaw_json>>] = CONTENT_A

----------------------------------------------------------------------------
\* Claims about the manifest

\* C24: restoreBackup has parsed the manifest before it writes (or, in a
\* dry-run, logs) the first file, and when it returns it returns a
\* manifest.
C24_ManifestFirst ==
    /\ (rs.pc \in {"scan", "done"} /\ rs.handled # <<>>) => rs.manifest.set
    /\ rs.pc = "done" => rs.manifest.set

----------------------------------------------------------------------------
(* Backups of a system some of whose files cannot be read, and their       *)
(* restores.                                                               *)

MaxPacks == 1

UnreadableChoices == {{}, {BrainFile}, {AgentsFile, ConfigFile}}

NextPack ==
    \/ /\ \E p \in Passphrases, en \in EnabledChoices, u \in UnreadableChoices :
             /\ Quiet /\ created < MaxPacks
             /\ CreateBeginWith(1, p, en, RandomSalt(rng + 1), RandomIv(rng + 2), u)
       /\ rng' = rng + 2
       /\ UNCHANGED <<dl, ep>>
    \/ CreateWrite(1) /\ UNCHANGED <<dl, ep, rng>>
    \/ /\ \E m \in made, d \in BOOLEAN :
             /\ Quiet /\ restores < MaxRestores
             /\ RestoreBegin(OpenArchive(m.data, m.pass), m.data, m.pass, NoFilter, d)
       /\ UNCHANGED <<dl, ep, rng>>
    \/ RestoreStep /\ UNCHANGED <<dl, ep, rng>>
    \/ /\ \E q \in EditablePaths, c \in Contents : EditFile(q, c)
       /\ UNCHANGED <<dl, ep, rng>>

SpecPack == Init /\ [][NextPack]_vars

\* C25: the fileCount of the manifest createBackup returns is the number
\* of file entries it packed, and an unfiltered restore of the archive
\* reports the same number.
C25_FileCount ==
    \A m \in made :
        /\ m.manifest.fileCount = Len(m.read)
        /\ (rs.pc = "done" /\ rs.encrypted = m.data /\ rs.pass = m.pass
            /\ ~rs.filter.given) => rs.fileCount = m.manifest.fileCount

----------------------------------------------------------------------------
\* Claims about the container codec

\* Containers packed from a manifest and a list of entries, with what
\* the scan has to yield for each.
PackedCases ==
    { [sealed   |-> SealedBy(ScanCodec),
       tar      |-> ScanCodec,
       expected |-> <<[name |-> MANIFEST_NAME, content |-> ScanManifestJson(5)]>>
                    \o ScanCodecEntries],
      [sealed   |-> SealedBy(ScanTraversal),
       tar      |-> ScanTraversal,
       expected |-> <<[name |-> MANIFEST_NAME, content |-> ScanManifestJson(2)]>>
                    \o ScanTraversalEntries] }

\* The first n triples the scan yielded are the first n entries packed.
YieldsPacked(seen, expected) ==
    /\ Len(seen) <= Len(expected)
    /\ \A k \in 1..Len(seen) :
          /\ seen[k].name = expected[k].name
          /\ seen[k].size = Len(expected[k].content)
          /\ seen[k].content = expected[k].content

\* C26: a packed container is a whole number of 512-byte blocks long;
\* the scan yields the packed names, sizes and contents in packing
\* order, all of them when it returns, and it stops at the end marker.
C26_CodecRoundTrip ==
    \A p \in PackedCases :
        /\ Len(p.tar) % 512 = 0
        /\ (rs.pc \in {"scan", "done", "failed"} /\ rs.encrypted = p.sealed) =>
              /\ YieldsPacked(rs.seen, p.expected)
              /\ rs.pc = "done" =>
                    /\ Len(rs.seen) = Len(p.expected)
                    /\ rs.pos = Len(p.tar) - 1024

\* The scan has returned from a container with an empty file and a file
\* of exactly one block.
C26_Witness ==
    /\ rs.pc = "done" /\ rs.encrypted = SealedBy(ScanCodec)
    /\ \E k \in 1..Len(rs.seen) : rs.seen[k].size = 0
    /\ \E k \in 1..Len(rs.seen) : rs.seen[k].size = 512

----------------------------------------------------------------------------
\* Claims about the end of the scan

\* C27: every iteration of the scan that is followed by another leaves
\* the scan position further on than it found it.
C27_ScanAdvances ==
    [][(rs.pc = "scan" /\ rs'.pc = "scan") => rs'.pos > rs.pos]_vars

----------------------------------------------------------------------------
\* Claims about where restores write

\* The path q is the path root or lies beneath it.
Beneath(root, q) == Len(q) >= Len(root) /\ SubSeq(q, 1, Len(root)) = root

\* C28: every file a real restoreBackup has written is the first root of
\* the category of its entry or lies beneath that root.
C28_WritesStayInRoot ==
    (rs.pc \in {"scan", "done", "failed"} /\ ~rs.dryRun) =>
        \A k \in 1..Len(rs.handled) :
            Beneath(FirstRoot(rs.handled[k].name, rs.ws), rs.handled[k].out)

----------------------------------------------------------------------------
\* Claims about the stored manifest

\* C29: the manifest a restore returns from an archive is, field by
\* field, the manifest the createBackup call that made the archive
\* returned.
C29_ManifestEqual ==
    \A m \in made :
        (rs.pc = "done" /\ rs.encrypted = m.data /\ rs.pass = m.pass) =>
            /\ rs.manifest.set
            /\ rs.manifest.val.version = m.manifest.version
            /\ rs.manifest.val.createdAt = m.manifest.createdAt
            /\ rs.manifest.val.hostname = m.manifest.hostname
            /\ rs.manifest.val.categories = m.manifest.categories
            /\ rs.manifest.val.fileCount = m.manifest.fileCount
            /\ rs.manifest.val.totalBytes = m.manifest.totalBytes

\* The same without the field totalBytes (not a claim: it shows which
\* field differs).
ManifestEqualButTotalBytes ==
    \A m \in made :
        (rs.pc = "done" /\ rs.encrypted = m.data /\ rs.pass = m.pass) =>
            /\ rs.manifest.set
            /\ rs.manifest.val.version = m.manifest.version
            /\ rs.manifest.val.createdAt = m.manifest.createdAt
            /\ rs.manifest.val.hostname = m.manifest.hostname
            /\ rs.manifest.val.categories = m.manifest.categories
            /\ rs.manifest.val.fileCount = m.manifest.fileCount
            /\ rs.manifest.val.totalBytes = 0

----------------------------------------------------------------------------
(* pruneBackups run twice in a row: backups are made as time passes, the   *)
(* directory is pruned, and pruned again at once with the same policy.     *)

MaxPruneRuns == 2

NextPruneTwice ==
    \/ /\ Quiet /\ pr.calls = 0 /\ created < MaxPruneCreates
       /\ CreateBegin(1, PASS_A, {S_config}, RandomSalt(1), RandomIv(1))
       /\ UNCHANGED <<dl, ep, rng>>
    \/ CreateWrite(1) /\ UNCHANGED <<dl, ep, rng>>
    \/ /\ \E d \in PruneTicks :
             /\ Quiet
             /\ pr.calls = 0 \/ (pr.calls = 1 /\ pr.pc = "list")
             /\ (now + d) \div DAY_MS <= MaxPruneDays
             /\ (now + d) % DAY_MS <= MaxPruneSecs * 1000
             /\ Tick(d)
       /\ UNCHANGED <<dl, ep, rng>>
    \/ /\ \E mb \in MaxBackupsChoices, md \in MaxAgeDaysChoices :
             Quiet /\ pr.calls = 0 /\ PruneCall(mb, md)
       /\ UNCHANGED <<dl, ep, rng>>
    \/ /\ pr.calls >= 1 /\ pr.calls < MaxPruneRuns /\ pr.pc = "done"
       /\ PruneCall(pr.maxBackups, pr.maxAgeDays)
       /\ UNCHANGED <<dl, ep, rng>>
    \/ PruneReaddir /\ UNCHANGED <<dl, ep, rng>>
    \/ PruneStat /\ UNCHANGED <<dl, ep, rng>>
    \/ PruneAge /\ UNCHANGED <<dl, ep, rng>>
    \/ PruneRestat /\ UNCHANGED <<dl, ep, rng>>
    \/ PruneCount /\ UNCHANGED <<dl, ep, rng>>

SpecPruneTwice == InitPrune /\ [][NextPruneTwice]_vars

\* The file names the list pruned names.
PrunedNames == {pr.pruned[i] : i \in 1..Len(pr.pruned)}

\* C30: when pruneBackups returns, every archive it removed by age was
\* older than maxAgeDays when the call read the clock, and every archive
\* it removed by count has at least maxBackups archives left that are at
\* least as new; no file of another name is ever removed; the returned
\* list names the removed archives, each once; and a second run right
\* after the first removes nothing.
C30_PrunesOnlyViolators ==
    /\ pr.pc = "done" =>
          /\ \A n \in pr.byAge :
                pr.now - pr.dir0[n].mtime > pr.maxAgeDays * DAY_MS
          /\ \A b \in pr.byCount :
                Cardinality({q \in ArchivesIn(pr.after) :
                                pr.after[q].mtime >= b.createdAt}) >= pr.maxBackups
          /\ PrunedNames = ArchivesIn(pr.dir0) \ ArchivesIn(pr.after)
          /\ PrunedNames = pr.byAge \cup {b.filename : b \in pr.byCount}
          /\ Len(pr.pruned) = Cardinality(PrunedNames)
    /\ pr.pc # "idle" =>
          \A n \in DOMAIN pr.dir0 : n.ext # ".ocbak" => n \in DOMAIN bdir
    /\ pr.calls = 2 => pr.pruned = <<>> /\ pr.pc # "failed"

\* The second run has returned after a first run that removed one
\* archive by age and one by count and left one, beside a file of
\* another name.
C30_Witness ==
    /\ pr.calls = 2 /\ pr.pc = "done"
    /\ NotesName \in DOMAIN bdir
    /\ Cardinality(ArchivesIn(bdir)) = 1
    /\ created = 3

====
